---- MODULE Spec2Model ----
(***************************************************************************)
(* AGON trained-schema variant (src/src/agon/core.py): schema induction,   *)
(* positional packing, the coverage gate, the adaptive encoder and the     *)
(* strict / non-strict decoder, as a state machine over JSON values; and   *)
(* the text codecs rows, columns and struct over lines of tokens.          *)
(***************************************************************************)
EXTENDS Integers, Sequences, FiniteSets, TLC

(***************************************************************************)
(* JSON values.  Every value is a tagged tuple so that values of different *)
(* kinds can be compared: null, integers, strings, arrays, objects.  An    *)
(* object is a function from its keys to values (python dict equality does *)
(* not depend on insertion order).                                         *)
(***************************************************************************)
Null == <<"null">>
Num(n) == <<"int", n>>
Str(s) == <<"str", s>>
List(s) == <<"list", s>>
Obj(f) == <<"obj", f>>
Bool(b) == <<"bool", b>>

IsNone(v) == v[1] = "null"
IsInt(v) == v[1] = "int"
IsStr(v) == v[1] = "str"
IsList(v) == v[1] = "list"
IsDict(v) == v[1] = "obj"

Items(v) == v[2]
Fields(v) == v[2]
KeysOf(v) == DOMAIN v[2]
EmptyObj == Obj(<<>>)

\* isinstance(v, list) and all(isinstance(x, dict) for x in v)
IsListOfDicts(v) == IsList(v) /\ \A i \in DOMAIN Items(v) : IsDict(Items(v)[i])

\* dict.get(k): None when the key is absent
Get(o, k) == IF k \in KeysOf(o) THEN Fields(o)[k] ELSE Null

Range(s) == {s[i] : i \in DOMAIN s}

\* a raised python exception, propagated through the pure operators
Raise(kind, msg) == <<"raise", kind, msg>>
IsRaise(v) == v[1] = "raise"

\* the reserved marker for a missing field inside a packed row
missing_sentinel == Obj([k \in {"_m"} |-> Num(1)])
IsSentinel(v) == IsDict(v) /\ v = missing_sentinel

(***************************************************************************)
(* Schema nodes: k ordered keys, t tags, d dictionaries, s sub-schemas.    *)
(***************************************************************************)
EmptyNode == [k |-> <<>>, t |-> <<>>, d |-> <<>>, s |-> <<>>]

\* types.get(k, "scalar")
TypeOf(node, k) == IF k \in DOMAIN node.t THEN node.t[k] ELSE "scalar"

\* index (0-based) of a string in a dictionary list, or -1
RECURSIVE IndexFrom(_, _, _)
IndexFrom(lst, s, i) ==
    IF i > Len(lst) THEN -1
    ELSE IF lst[i] = s THEN i - 1
    ELSE IndexFrom(lst, s, i + 1)

IndexIn(lst, s) == IndexFrom(lst, s, 1)

\* first element of a sequence that is a raised exception, if any
RECURSIVE FirstRaise(_, _)
FirstRaise(cells, i) ==
    IF i > Len(cells) THEN Null
    ELSE IF IsRaise(cells[i]) THEN cells[i]
    ELSE FirstRaise(cells, i + 1)

HasRaise(cells) == \E i \in DOMAIN cells : IsRaise(cells[i])

(***************************************************************************)
(* Token physics: the tokenizer is an external collaborator.  A tokenizer  *)
(* enc prices a text by the kind of its root value.                        *)
(***************************************************************************)
\* orjson.dumps / orjson.loads: a text is the JSON value it spells, or is
\* not JSON at all
Dumps(v) == <<"text", v>>
NotJson == <<"garbage">>
IsJsonText(p) == p[1] = "text"
Loads(p) == p[2]

\* AGON._tk_text: len(AGON._enc.encode(text))
TkText(text, enc) ==
    IF ~IsJsonText(text) THEN enc.list
    ELSE IF IsDict(Loads(text)) THEN enc.obj
    ELSE IF IsStr(Loads(text)) THEN enc.str
    ELSE IF IsInt(Loads(text)) THEN enc.int
    ELSE enc.list

\* AGON._tk_val: tokens of the JSON representation of a python value
TkVal(v, enc) == TkText(Dumps(v), enc)

(***************************************************************************)
(* Training: AGON._optimize_string, AGON._build_node, AGON.train           *)
(***************************************************************************)
\* the strings of the model with their python len() and whether they hold
\* one of "\n\r\t"
LongStr == "llllllll"
CtlStr == "n\nn"
StrLen(s) == IF s = LongStr THEN 8 ELSE IF s = CtlStr THEN 3 ELSE 1
HasCtl(s) == s = CtlStr

\* sorted(): code-point order of the key strings of the model
KeyOrder == <<"_m", "a", "b", "c", "x", "y", "z">>
KeyRank(k) == CHOOSE i \in DOMAIN KeyOrder : KeyOrder[i] = k

\* the elements of a sequence that satisfy a test, in order
RECURSIVE Filter(_, _)
Filter(seq, keep) ==
    IF Len(seq) = 0 THEN <<>>
    ELSE (IF Head(seq) \in keep THEN <<Head(seq)>> ELSE <<>>) \o Filter(Tail(seq), keep)

\* number of occurrences of x in a sequence
Count(seq, x) == Cardinality({i \in DOMAIN seq : seq[i] = x})

\* the distinct elements in order of first occurrence
RECURSIVE Distinct(_)
Distinct(seq) ==
    IF Len(seq) = 0 THEN <<>>
    ELSE LET front == Distinct(SubSeq(seq, 1, Len(seq) - 1))
             x == seq[Len(seq)]
         IN IF x \in Range(front) THEN front ELSE Append(front, x)

\* stable sort of a sequence by a weight, largest first
RECURSIVE SortDesc(_, _)
SortDesc(seq, w) ==
    IF Len(seq) = 0 THEN <<>>
    ELSE LET i == CHOOSE i \in DOMAIN seq :
                     /\ \A j \in DOMAIN seq : w[seq[j]] <= w[seq[i]]
                     /\ \A j \in 1..(i - 1) : w[seq[j]] < w[seq[i]]
         IN <<seq[i]>> \o SortDesc(SubSeq(seq, 1, i - 1) \o SubSeq(seq, i + 1, Len(seq)), w)

\* faulty variant: every occurrence of a string is a candidate of its own
MostCommon_Repeats(values) ==
    SortDesc(values, [x \in Range(values) |-> Count(values, x)])

\* Counter(values).most_common(): by count, ties in order of first occurrence
MostCommon(values) ==
    LET ds == Distinct(values)
    IN SortDesc(ds, [x \in Range(ds) |-> Count(values, x)])

\* is_safe of _optimize_string
IsSafe(s, cfg) ==
    IF ~cfg.enum_only THEN TRUE
    ELSE IF StrLen(s) > cfg.max_len THEN FALSE
    ELSE ~HasCtl(s)

\* the admission loop: candidates from position i on, entries and
\* total_savings so far
RECURSIVE Admit(_, _, _, _, _, _, _)
Admit(cands, values, i, entries, savings, cfg, enc) ==
    IF i > Len(cands) THEN [entries |-> entries, savings |-> savings]
    ELSE LET s == cands[i]
             freq == Count(values, s)
         IN IF freq < 2 THEN [entries |-> entries, savings |-> savings]
            ELSE IF Len(entries) >= cfg.max_dict
                 THEN [entries |-> entries, savings |-> savings]
            ELSE IF ~IsSafe(s, cfg) THEN Admit(cands, values, i + 1, entries, savings, cfg, enc)
            ELSE LET c_lit == TkVal(Str(s), enc)
                     c_ptr == TkVal(Num(-(Len(entries) + 1)), enc)
                 IN Admit(cands, values, i + 1, Append(entries, s),
                          savings + (c_lit - c_ptr) * freq, cfg, enc)

RECURSIVE SumTk(_, _)
SumTk(entries, enc) ==
    IF Len(entries) = 0 THEN 0
    ELSE TkVal(Str(Head(entries)), enc) + SumTk(Tail(entries), enc)

\* prompt_cost of _optimize_string
PromptCost(key, entries, enc) ==
    TkVal(Str(key), enc) + SumTk(entries, enc) + Len(entries) + 4

\* faulty variant: the prompt cost is not amortized
NetGainOk_NoAmortize(total_savings, prompt_cost, cfg) ==
    total_savings - prompt_cost >= cfg.min_gain

\* (total_savings - (prompt_cost / amortize)) >= min_gain, in integers
NetGainOk(total_savings, prompt_cost, cfg) ==
    total_savings * cfg.amortize - prompt_cost >= cfg.min_gain * cfg.amortize

\* the dictionary of a str field, or <<>> when the field stays str
OptimizeString(key, values, cfg, enc) ==
    LET adm == Admit(MostCommon(values), values, 1, <<>>, 0, cfg, enc)
    IN IF Len(adm.entries) = 0 THEN <<>>
       ELSE IF NetGainOk(adm.savings, PromptCost(key, adm.entries, enc), cfg)
            THEN adm.entries
       ELSE <<>>

\* the non-null values of key k over the rows, in row order
RECURSIVE ValuesOf(_, _)
ValuesOf(rows, k) ==
    IF Len(rows) = 0 THEN <<>>
    ELSE (IF k \in KeysOf(Head(rows)) /\ ~IsNone(Fields(Head(rows))[k])
          THEN <<Fields(Head(rows))[k]>> ELSE <<>>) \o ValuesOf(Tail(rows), k)

\* faulty variant: only the first object of each array is collected
RECURSIVE ConcatLists_FirstOnly(_)
ConcatLists_FirstOnly(vals) ==
    IF Len(vals) = 0 THEN <<>>
    ELSE (IF IsListOfDicts(Head(vals)) /\ Len(Items(Head(vals))) > 0
          THEN <<Items(Head(vals))[1]>> ELSE <<>>)
         \o ConcatLists_FirstOnly(Tail(vals))

\* lists[k].extend(v) over the values that are non-empty arrays of objects
RECURSIVE ConcatLists(_)
ConcatLists(vals) ==
    IF Len(vals) = 0 THEN <<>>
    ELSE (IF IsListOfDicts(Head(vals)) THEN Items(Head(vals)) ELSE <<>>)
         \o ConcatLists(Tail(vals))

\* the kind-collections of _build_node for the values of one key
InObjs(vals) == \E i \in DOMAIN vals : IsDict(vals[i])
InListHasDicts(vals) ==
    \E i \in DOMAIN vals : IsListOfDicts(vals[i]) /\ Len(Items(vals[i])) > 0
InStrings(vals) == \E i \in DOMAIN vals : IsStr(vals[i])
InMixed(vals) ==
    \E i \in DOMAIN vals :
        \/ IsList(vals[i]) /\ ~IsListOfDicts(vals[i])
        \/ ~IsDict(vals[i]) /\ ~IsList(vals[i]) /\ ~IsStr(vals[i])

\* faulty variant: an empty array makes the key mixed
TagOf_EmptyArrayMixed(vals) ==
    IF InMixed(vals) \/ \E i \in DOMAIN vals : IsList(vals[i]) /\ Len(Items(vals[i])) = 0
    THEN "scalar"
    ELSE IF InObjs(vals) /\ ~InListHasDicts(vals) /\ ~InStrings(vals) THEN "obj"
    ELSE IF InListHasDicts(vals) /\ ~InObjs(vals) /\ ~InStrings(vals) THEN "list"
    ELSE IF InStrings(vals) /\ ~InObjs(vals) /\ ~InListHasDicts(vals) THEN "str"
    ELSE "scalar"

\* the tag chosen for a key from its values (before the dict upgrade)
TagOf(vals) ==
    IF InMixed(vals) THEN "scalar"
    ELSE IF InObjs(vals) /\ ~InListHasDicts(vals) /\ ~InStrings(vals) THEN "obj"
    ELSE IF InListHasDicts(vals) /\ ~InObjs(vals) /\ ~InStrings(vals) THEN "list"
    ELSE IF InStrings(vals) /\ ~InObjs(vals) /\ ~InListHasDicts(vals) THEN "str"
    ELSE "scalar"

\* sorted({k for r in rows for k in r})
RECURSIVE SortedKeys(_)
SortedKeys(S) ==
    IF S = {} THEN <<>>
    ELSE LET k == CHOOSE k \in S : \A j \in S : KeyRank(k) <= KeyRank(j)
         IN <<k>> \o SortedKeys(S \ {k})

\* faulty variant: the keys stay in alphabetical order
DenseFirst_Alphabetical(keys, presence) == keys

\* keys.sort(key=lambda k: -(presence[k] / total))
DenseFirst(keys, presence) == SortDesc(keys, presence)

\* strings[k]: the python strings among the values, in order
RECURSIVE StrItems(_)
StrItems(vals) ==
    IF Len(vals) = 0 THEN <<>>
    ELSE (IF IsStr(Head(vals)) THEN <<Items(Head(vals))>> ELSE <<>>) \o StrItems(Tail(vals))

RECURSIVE BuildNode(_, _, _)
BuildNode(rows, cfg, enc) ==
    IF Len(rows) = 0 \/ ~IsDict(rows[1]) THEN EmptyNode
    ELSE LET keyset == UNION {KeysOf(rows[i]) : i \in DOMAIN rows}
             keys == SortedKeys(keyset)
             presence == [k \in keyset |->
                             Cardinality({i \in DOMAIN rows : k \in KeysOf(rows[i])})]
             tag == [k \in keyset |-> TagOf(ValuesOf(rows, k))]
             dict == [k \in {k \in keyset : tag[k] = "str"} |->
                         OptimizeString(k, StrItems(ValuesOf(rows, k)), cfg, enc)]
             dicts == [k \in {k \in DOMAIN dict : Len(dict[k]) > 0} |-> dict[k]]
             types == [k \in keyset |-> IF k \in DOMAIN dicts THEN "dict" ELSE tag[k]]
             subs == [k \in {k \in keyset : tag[k] \in {"obj", "list"}} |->
                         IF tag[k] = "obj"
                         THEN BuildNode(Filter(ValuesOf(rows, k),
                                  {v \in Range(ValuesOf(rows, k)) : IsDict(v)}), cfg, enc)
                         ELSE BuildNode(ConcatLists(ValuesOf(rows, k)), cfg, enc)]
         IN [k |-> DenseFirst(keys, presence), t |-> types, d |-> dicts, s |-> subs]

\* AGON._anchor: the 16-hex-digit prefix of the SHA-256 of the key-sorted
\* JSON of the schema; distinct schemas are taken to hash differently
Sha(root) == <<"hex", root>>

\* faulty variant: the context id is hashed together with the schema
Anchor_CidInHash(context_id, root) ==
    [cid |-> context_id, v |-> Sha([cid |-> context_id, schema |-> root]), schema |-> root]

Anchor(context_id, root) == [cid |-> context_id, v |-> Sha(root), schema |-> root]

\* cfg of train
TrainCfg(min_gain, amortize, max_dict_per_field, enum_like_only, max_enum_len) ==
    [min_gain |-> min_gain,
     amortize |-> IF amortize < 1 THEN 1 ELSE amortize,
     max_dict |-> max_dict_per_field,
     enum_only |-> enum_like_only,
     max_len |-> max_enum_len]

Train(data, context_id, cfg, enc) ==
    IF Len(data) = 0 THEN Anchor(context_id, EmptyNode)
    ELSE Anchor(context_id, BuildNode(data, cfg, enc))

(***************************************************************************)
(* Encoding: AGON._pack                                                    *)
(***************************************************************************)
\* faulty variant: trailing explicit nulls are truncated together with the sentinels
RECURSIVE TruncateMissing_AndNull(_)
TruncateMissing_AndNull(row) ==
    IF Len(row) > 0 /\ (IsSentinel(row[Len(row)]) \/ IsNone(row[Len(row)]))
    THEN TruncateMissing_AndNull(SubSeq(row, 1, Len(row) - 1))
    ELSE row

\* faulty variant: the row keeps its trailing sentinels
TruncateMissing_Never(row) == row

\* while row and isinstance(row[-1], dict) and row[-1] == missing_sentinel: row.pop()
RECURSIVE TruncateMissing(_)
TruncateMissing(row) ==
    IF Len(row) > 0 /\ IsSentinel(row[Len(row)])
    THEN TruncateMissing(SubSeq(row, 1, Len(row) - 1))
    ELSE row

\* faulty variant: the pointer of dictionary entry i is -(i+2)
PackDict_OffByOne(v, entries) ==
    IF IsList(v) \/ IsDict(v) THEN Raise("TypeError", "unhashable type")
    ELSE IF IsStr(v) /\ IndexIn(entries, Items(v)) >= 0
         THEN Num(-(IndexIn(entries, Items(v)) + 2))
    ELSE v

\* `v in val_maps.get(k, {})`: hashing a list or a dict raises TypeError;
\* otherwise the pointer -(i+1) of a dictionary entry, or the value as-is
PackDict(v, entries) ==
    IF IsList(v) \/ IsDict(v) THEN Raise("TypeError", "unhashable type")
    ELSE IF IsStr(v) /\ IndexIn(entries, Items(v)) >= 0
         THEN Num(-(IndexIn(entries, Items(v)) + 1))
    ELSE v

RECURSIVE PackRow(_, _)
RECURSIVE Pack(_, _)

\* the loop body of _pack for one schema key
PackField(r, k, node) ==
    IF k \notin KeysOf(r) THEN missing_sentinel
    ELSE LET v == Fields(r)[k]
             t == TypeOf(node, k)
         IN IF IsNone(v) THEN Null
            ELSE IF t = "obj"
                 THEN IF IsDict(v) THEN PackRow(v, node.s[k]) ELSE v
            ELSE IF t = "list"
                 THEN IF IsListOfDicts(v)
                      THEN Pack(Items(v), node.s[k])
                      ELSE v
            ELSE IF t = "dict" THEN PackDict(v, node.d[k])
            ELSE v

PackRow(r, node) ==
    LET cells == [i \in 1..Len(node.k) |-> PackField(r, node.k[i], node)]
    IN IF HasRaise(cells) THEN FirstRaise(cells, 1)
       ELSE List(TruncateMissing(cells))

\* the array of packed rows, or the exception raised on the way
Pack(rows, node) ==
    LET out == [i \in 1..Len(rows) |-> PackRow(rows[i], node)]
    IN IF HasRaise(out) THEN FirstRaise(out, 1) ELSE List(out)

(***************************************************************************)
(* Encoding: AGON._check_coverage and AGON.encode                          *)
(***************************************************************************)
RECURSIVE CheckCoverage(_, _)

\* the two recursive checks made for one (key, value) item of a row
ItemCovered(k, v, node) ==
    IF IsNone(v) THEN TRUE
    ELSE LET t == TypeOf(node, k)
         IN /\ ~(t = "obj" /\ IsDict(v) /\ ~CheckCoverage(<<v>>, node.s[k]))
            /\ ~(/\ t = "list"
                 /\ IsList(v)
                 /\ Len(Items(v)) > 0
                 /\ IsListOfDicts(v)
                 /\ ~CheckCoverage(Items(v), node.s[k]))

\* faulty variant: only the keys of the row itself are compared with the schema
RowCovered_TopOnly(r, node) == \A k \in KeysOf(r) : k \in Range(node.k)

RowCovered(r, node) ==
    /\ \A k \in KeysOf(r) : k \in Range(node.k)
    /\ \A k \in KeysOf(r) : ItemCovered(k, Fields(r)[k], node)

CheckCoverage(data, node) == \A i \in DOMAIN data : RowCovered(data[i], node)

\* agon_obj of encode
Packet(c, v, d) == Obj([k \in {"_f", "c", "v", "d"} |->
    IF k = "_f" THEN Str("a") ELSE IF k = "c" THEN c ELSE IF k = "v" THEN v ELSE d])

\* faulty variant: the packet also wins a tie
Smaller_OnTie(agon_str, json_str, enc) ==
    IF TkText(agon_str, enc) <= TkText(json_str, enc) THEN agon_str ELSE json_str

\* "Adaptive Decision: Never worse than standard JSON"
Smaller(agon_str, json_str, enc) ==
    IF TkText(agon_str, enc) < TkText(json_str, enc) THEN agon_str ELSE json_str

Encode(data, config, force_agon, enc) ==
    LET json_str == Dumps(List(data))
    IN IF ~force_agon /\ ~CheckCoverage(data, config.schema) THEN json_str
       ELSE LET agon_rows == Pack(data, config.schema)
            IN IF IsRaise(agon_rows) THEN agon_rows
               ELSE LET agon_str == Dumps(Packet(Str(config.cid), config.v, agon_rows))
                    IN IF force_agon THEN agon_str
                       ELSE Smaller(agon_str, json_str, enc)

(***************************************************************************)
(* Decoding: AGON._validate_packed_row_structure, AGON._unpack, decode     *)
(***************************************************************************)
AGONError(msg) == Raise("AGONError", msg)

\* all(isinstance(x, list) for x in v), true of the empty list
IsListOfLists(v) == IsList(v) /\ \A i \in DOMAIN Items(v) : IsList(Items(v)[i])

\* faulty variant: a raw object inside a nested row passes the drift guard
CellShapeOk_RawObjects(val, t) ==
    IF IsNone(val) \/ IsSentinel(val) \/ IsDict(val) THEN TRUE
    ELSE IF t = "obj" THEN IsList(val)
    ELSE IF t = "list" THEN IsListOfLists(val)
    ELSE TRUE

\* the per-position test of the drift guard
CellShapeOk(val, t) ==
    IF IsNone(val) \/ IsSentinel(val) THEN TRUE
    ELSE IF IsDict(val) THEN FALSE
    ELSE IF t = "obj" THEN IsList(val)
    ELSE IF t = "list" THEN IsListOfLists(val)
    ELSE TRUE

ValidatePackedRowStructure(row, sub_node) ==
    /\ IsList(row)
    /\ Len(Items(row)) <= Len(sub_node.k)
    /\ \A i \in DOMAIN Items(row) :
          CellShapeOk(Items(row)[i], TypeOf(sub_node, sub_node.k[i]))

\* faulty variant: a bad pointer is passed through in strict mode too
UnpackPointer_NeverRaise(v, entries, strict) ==
    LET i == -Items(v) - 1
    IN IF i < Len(entries) THEN Str(entries[i + 1]) ELSE v

\* the dict branch of _unpack: v is a negative integer
UnpackPointer(v, entries, strict) ==
    LET i == -Items(v) - 1
    IN IF i < Len(entries) THEN Str(entries[i + 1])
       ELSE IF strict THEN AGONError("Invalid dict ref")
       ELSE v

\* markers of the row loop: a sentinel cell leaves the key absent, a
\* non-list row is skipped in non-strict mode
Absent == <<"absent">>
Skipped == <<"skipped">>

\* limit = min(len(r), len(keys))
Limit(r, keys) == IF Len(Items(r)) < Len(keys) THEN Len(Items(r)) ELSE Len(keys)

RECURSIVE UnpackRow(_, _, _)
RECURSIVE Unpack(_, _, _)

\* faulty variant: the drift guard rejects in strict mode
UnpackCell_StrictGuard(v, k, node, strict) ==
    LET t == TypeOf(node, k)
    IN IF IsSentinel(v) THEN Absent
       ELSE IF IsNone(v) THEN Null
       ELSE IF t = "obj"
            THEN IF ValidatePackedRowStructure(v, node.s[k])
                 THEN UnpackRow(v, node.s[k], strict)
                 ELSE IF strict THEN AGONError("Invalid nested row") ELSE v
       ELSE IF t = "list"
            THEN IF IsListOfLists(v) THEN Unpack(Items(v), node.s[k], strict)
                 ELSE IF strict THEN AGONError("Invalid nested rows") ELSE v
       ELSE IF t = "dict" /\ IsInt(v) /\ Items(v) < 0
            THEN UnpackPointer(v, node.d[k], strict)
       ELSE v

\* the loop body of _unpack for position i of a row
UnpackCell(v, k, node, strict) ==
    LET t == TypeOf(node, k)
    IN IF IsSentinel(v) THEN Absent
       ELSE IF IsNone(v) THEN Null
       ELSE IF t = "obj"
            THEN IF ValidatePackedRowStructure(v, node.s[k])
                 THEN UnpackRow(v, node.s[k], strict)
                 ELSE v
       ELSE IF t = "list"
            THEN IF IsListOfLists(v) THEN Unpack(Items(v), node.s[k], strict) ELSE v
       ELSE IF t = "dict" /\ IsInt(v) /\ Items(v) < 0
            THEN UnpackPointer(v, node.d[k], strict)
       ELSE v

\* obj[k] = ... for every position that is not the sentinel
RowObject(cells, keys) ==
    LET present == {i \in DOMAIN cells : cells[i] # Absent}
    IN Obj([k \in {keys[i] : i \in present} |->
               cells[CHOOSE i \in present :
                        keys[i] = k /\ \A j \in present : keys[j] = k => j <= i]])

\* faulty variant: a non-list row raises in non-strict mode as well
UnpackRow_AlwaysRaise(r, node, strict) ==
    IF ~IsList(r) THEN AGONError("Row must be a list")
    ELSE LET cells == [i \in 1..Limit(r, node.k) |->
                          UnpackCell(Items(r)[i], node.k[i], node, strict)]
         IN IF HasRaise(cells) THEN FirstRaise(cells, 1)
            ELSE RowObject(cells, node.k)

UnpackRow(r, node, strict) ==
    IF ~IsList(r)
    THEN IF strict THEN AGONError("Row must be a list") ELSE Skipped
    ELSE LET cells == [i \in 1..Limit(r, node.k) |->
                          UnpackCell(Items(r)[i], node.k[i], node, strict)]
         IN IF HasRaise(cells) THEN FirstRaise(cells, 1)
            ELSE RowObject(cells, node.k)

\* the rows that were not skipped, in their original order
RECURSIVE DropSkipped(_)
DropSkipped(out) ==
    IF Len(out) = 0 THEN <<>>
    ELSE IF Head(out) = Skipped THEN DropSkipped(Tail(out))
    ELSE <<Head(out)>> \o DropSkipped(Tail(out))

Unpack(rows, node, strict) ==
    LET out == [i \in 1..Len(rows) |-> UnpackRow(rows[i], node, strict)]
    IN IF HasRaise(out) THEN FirstRaise(out, 1) ELSE List(DropSkipped(out))

\* faulty variant: the version is compared before the cid
AnchorCheck_VersionFirst(packet, config) ==
    IF Get(packet, "v") # config.v THEN AGONError("Version Mismatch")
    ELSE IF Get(packet, "c") # Str(config.cid) THEN AGONError("CID Mismatch")
    ELSE Null

\* faulty variant: the version is not compared at all
AnchorCheck_CidOnly(packet, config) ==
    IF Get(packet, "c") # Str(config.cid) THEN AGONError("CID Mismatch")
    ELSE Null

\* the strict anchor comparison of decode
AnchorCheck(packet, config) ==
    IF Get(packet, "c") # Str(config.cid) THEN AGONError("CID Mismatch")
    ELSE IF Get(packet, "v") # config.v THEN AGONError("Version Mismatch")
    ELSE Null

\* the tail of decode once the anchor was accepted
DecodeRows(packet, config, strict) ==
    LET d_rows == Get(packet, "d")
    IN IF ~IsList(d_rows)
       THEN IF strict THEN AGONError("Payload 'd' must be a list") ELSE List(<<>>)
       ELSE Unpack(Items(d_rows), config.schema, strict)

\* faulty variant: strict decode accepts packets only
Decode_PacketsOnly(payload, config, strict) ==
    IF ~IsJsonText(payload)
    THEN IF strict THEN AGONError("Invalid JSON") ELSE List(<<>>)
    ELSE LET packet == Loads(payload)
         IN IF IsList(packet) /\ ~strict THEN packet
            ELSE IF IsDict(packet) /\ Get(packet, "_f") = Str("a")
                 THEN IF strict /\ IsRaise(AnchorCheck(packet, config))
                      THEN AnchorCheck(packet, config)
                      ELSE DecodeRows(packet, config, strict)
            ELSE IF strict THEN AGONError("Unknown format")
            ELSE List(<<>>)

\* AGON.decode(payload, config, strict)
Decode(payload, config, strict) ==
    IF ~IsJsonText(payload)
    THEN IF strict THEN AGONError("Invalid JSON") ELSE List(<<>>)
    ELSE LET packet == Loads(payload)
         IN IF IsList(packet) THEN packet
            ELSE IF IsDict(packet) /\ Get(packet, "_f") = Str("a")
                 THEN IF strict /\ IsRaise(AnchorCheck(packet, config))
                      THEN AnchorCheck(packet, config)
                      ELSE DecodeRows(packet, config, strict)
            ELSE IF strict THEN AGONError("Unknown format")
            ELSE List(<<>>)

(***************************************************************************)
(* Prompt and schema: AGON.system_prompt, AGON.get_json_schema             *)
(***************************************************************************)
\* a python list of strings as a JSON array
StrList(seq) == List([i \in DOMAIN seq |-> Str(seq[i])])

\* schema_view of system_prompt
SchemaView(node) ==
    Obj(("keys" :> StrList(node.k))
        @@ ("dicts" :> Obj([k \in DOMAIN node.d |-> StrList(node.d[k])]))
        @@ ("subs" :> Obj([k \in DOMAIN node.s |-> StrList(node.s[k].k)])))

\* the prompt: the fixed instructions with cid and v filled in, followed by
\* the JSON text of the schema view
SystemPrompt(cfg) ==
    [cid |-> cfg.cid, v |-> cfg.v, schema_str |-> Dumps(SchemaView(cfg.schema))]

\* missing_sentinel_schema of _to_json_schema_node
missing_sentinel_schema ==
    Obj(("type" :> Str("object"))
        @@ ("properties" :> Obj("_m" :> Obj("const" :> Num(1))))
        @@ ("required" :> StrList(<<"_m">>))
        @@ ("additionalProperties" :> Bool(FALSE)))

TypeIs(name) == Obj("type" :> Str(name))

\* the alternative of a scalar or str position
AnyValue ==
    Obj("type" :> StrList(<<"string", "number", "boolean", "object", "array">>))

\* {"type": "integer", "maximum": -1, "minimum": -dict_len}
PointerRange(dict_len) ==
    Obj(("type" :> Str("integer")) @@ ("maximum" :> Num(-1))
        @@ ("minimum" :> Num(-dict_len)))

RECURSIVE ToJsonSchemaNode(_)

\* faulty variant: the sentinel is not among the alternatives
BaseSchema_NoSentinel(node, k) ==
    LET t == TypeOf(node, k)
    IN <<TypeIs("null")>> \o
       (IF t = "obj" THEN <<Get(ToJsonSchemaNode(node.s[k]), "items")>>
        ELSE IF t = "list" THEN <<ToJsonSchemaNode(node.s[k])>>
        ELSE IF t = "dict" THEN <<PointerRange(Len(node.d[k])), TypeIs("string")>>
        ELSE <<AnyValue>>)

\* base_schema of one key: the sentinel, null and the type-specific part
BaseSchema(node, k) ==
    LET t == TypeOf(node, k)
        dict_len == IF k \in DOMAIN node.d THEN Len(node.d[k]) ELSE 0
    IN <<missing_sentinel_schema, TypeIs("null")>> \o
       (IF t = "obj" THEN <<Get(ToJsonSchemaNode(node.s[k]), "items")>>
        ELSE IF t = "list" THEN <<ToJsonSchemaNode(node.s[k])>>
        ELSE IF t = "dict"
             THEN (IF dict_len > 0 THEN <<PointerRange(dict_len)>> ELSE <<>>)
                  \o <<TypeIs("string")>>
        ELSE <<AnyValue>>)

\* faulty variant: maxItems is one less than the number of keys
ToJsonSchemaNode_ShortRows(node) ==
    LET prefix_items ==
            [i \in DOMAIN node.k |-> Obj("anyOf" :> List(BaseSchema(node, node.k[i])))]
    IN Obj(("type" :> Str("array"))
           @@ ("items" :> Obj(("type" :> Str("array"))
                              @@ ("prefixItems" :> List(prefix_items))
                              @@ ("maxItems" :> Num(Len(node.k) - 1)))))

ToJsonSchemaNode(node) ==
    LET prefix_items ==
            [i \in DOMAIN node.k |-> Obj("anyOf" :> List(BaseSchema(node, node.k[i])))]
    IN Obj(("type" :> Str("array"))
           @@ ("items" :> Obj(("type" :> Str("array"))
                              @@ ("prefixItems" :> List(prefix_items))
                              @@ ("maxItems" :> Num(Len(node.k))))))

GetJsonSchema(cfg) ==
    Obj(("type" :> Str("object"))
        @@ ("properties" :> Obj(("_f" :> Obj("const" :> Str("a")))
                                @@ ("c" :> Obj("const" :> Str(cfg.cid)))
                                @@ ("v" :> Obj("const" :> cfg.v))
                                @@ ("d" :> ToJsonSchemaNode(cfg.schema))))
        @@ ("required" :> StrList(<<"_f", "c", "v", "d">>))
        @@ ("additionalProperties" :> Bool(FALSE)))

(***************************************************************************)
(* The inputs of the model: tokenizers, training samples, data to encode.  *)
(***************************************************************************)
MaxTok == 2
MaxRows == 3

\* an object over the given keys, leaving out the keys mapped to Absent
Make(keys, val) == Obj([k \in {k \in keys : val[k] # Absent} |-> val[k]])
O1(k1, v1) == Obj(k1 :> v1)
O2(k1, v1, k2, v2) == Obj((k1 :> v1) @@ (k2 :> v2))
O3(k1, v1, k2, v2, k3, v3) == Obj((k1 :> v1) @@ (k2 :> v2) @@ (k3 :> v3))

\* all sequences over S of length at most n
RECURSIVE SeqsUpTo(_, _)
SeqsUpTo(S, n) ==
    IF n = 0 THEN {<<>>}
    ELSE LET shorter == SeqsUpTo(S, n - 1)
         IN shorter \cup {Append(q, x) : q \in shorter, x \in S}

\* tokenizers: a quoted word costs 3 tokens and a small integer 1, a whole
\* payload between 1 and MaxTok
Encodings ==
    {[obj |-> o, list |-> l, str |-> 3, int |-> 1] : o \in 1..MaxTok, l \in 1..MaxTok}

Cids == {"A", "B"}

\* train() called with its default parameters
DefaultCfg == TrainCfg(3, 50, 100, TRUE, 64)

\* flat samples with a repeated string, a number and a key that is only null
SampleFlat ==
    << O3("a", Str("u"), "b", Num(1), "c", Null),
       O2("a", Str("u"), "b", Num(2)),
       O1("a", Str("w")) >>

\* samples with a nested object and a nested list of objects
SampleNested ==
    << O3("a", Str("u"),
          "b", O2("x", Str("u"), "y", Num(1)),
          "c", List(<<O1("x", Str("u")), O2("x", Str("u"), "y", Null)>>)),
       O2("a", Str("w"), "b", O1("x", Str("u"))) >>

SamplePool == {<<>>, SampleFlat, SampleNested}

\* values a field of an input object may hold
InnerObjs ==
    {EmptyObj, O1("x", Str("u")), O1("y", Num(1)), O2("x", Null, "y", Str("w")),
     O1("z", Num(1)), O1("y", O1("z", Num(1)))}

ValsA == {Absent, Null, Str("u"), Str("w"), Num(-1), List(<<>>), missing_sentinel}

ValsB == {Absent, Null, Str("w"), List(<<Str("w")>>)} \cup InnerObjs

ValsC ==
    {Absent, Null, Num(1), List(<<>>),
     List(<<O1("x", Str("u"))>>),
     List(<<EmptyObj, O1("y", Num(1))>>),
     List(<<O1("z", Num(1))>>),
     List(<<O1("z", Num(1)), Num(1)>>),
     List(<<List(<<Str("w")>>)>>)}

Objects ==
    {Make({"a", "b", "c"}, [k \in {"a", "b", "c"} |->
         IF k = "a" THEN a ELSE IF k = "b" THEN b ELSE c]) :
       a \in ValsA, b \in ValsB, c \in ValsC}

\* rows used to build inputs of more than one object
FewObjects == {EmptyObj, O1("a", Str("u")), O2("a", Null, "b", O1("y", Num(1)))}

DataPool == {<<o>> : o \in Objects} \cup SeqsUpTo(FewObjects, MaxRows)

\* what a producer may put at the positions of a row written by hand
CellsA == {Null, Num(-1), Num(-9), Str("w"), missing_sentinel, O1("z", Num(1))}

CellsB ==
    {Null, Str("w"), O1("x", Str("u")), missing_sentinel,
     List(<<Num(-1)>>), List(<<Num(-9)>>),
     List(<<Num(-1), Num(1), Num(1)>>),
     List(<<O1("z", Num(1))>>),
     List(<<Num(-9), O1("z", Num(1))>>)}

CellsC ==
    {Num(1), List(<<>>), List(<<Num(1)>>),
     List(<<List(<<Num(-1)>>)>>),
     List(<<List(<<Num(-9)>>), List(<<>>)>>)}

WireRows ==
    {List(<<>>)}
    \cup {List(<<a>>) : a \in CellsA}
    \cup {List(<<a, b>>) : a \in CellsA, b \in CellsB}
    \cup {List(<<a, b, c>>) : a \in CellsA, b \in CellsB, c \in CellsC}
    \cup {List(<<a, b, List(<<>>), Num(7)>>) :
            a \in CellsA, b \in {Null, List(<<Num(-1), Num(1), Num(1)>>)}}

\* elements used to build a d of more than one element
FewRows == {Str("x"), List(<<>>), List(<<Num(-1)>>), List(<<Num(-9)>>)}

WireD ==
    {Str("w"), Null}
    \cup {List(<<r>>) : r \in WireRows}
    \cup {List(q) : q \in SeqsUpTo(FewRows, MaxRows)}

\* payloads a consumer holding cfg may receive
WirePayloads(cfg) ==
    {NotJson, Dumps(Num(1)), Dumps(EmptyObj), Dumps(O2("_f", Str("j"), "d", List(<<>>))),
     Dumps(List(<<>>)), Dumps(List(<<O1("z", Num(1)), Num(1)>>))}
    \cup {Dumps(Packet(c, v, d)) :
            c \in {Str(cid) : cid \in Cids},
            v \in {cfg.v, Sha(EmptyNode), Str("wrong")},
            d \in WireD}

\* training inputs: at most MaxSamples sample objects per train call
MaxSamples == 3

\* tokenizers for training: a quoted word costs 1 or 3 tokens, a small
\* integer 1 or 2
TrainEncodings ==
    {[obj |-> 1, list |-> 1, str |-> s, int |-> i] : s \in {1, 3}, i \in {1, 2}}

\* keyword arguments of train()
CfgPool ==
    {TrainCfg(g, a, m, e, l) :
        g \in {0, 3}, a \in {0, 50}, m \in {0, 1, 100}, e \in BOOLEAN, l \in {2, 64}}

\* samples whose only key holds the given strings, in order
StrSeqs ==
    { <<"u", "w">>, <<"u", "u">>, <<"u", "u", "w", "w", "w">>,
      <<LongStr, LongStr, LongStr, "u", "u">>, <<CtlStr, CtlStr, CtlStr, "u", "u">>,
      <<LongStr, LongStr>>, <<CtlStr, CtlStr, "w">> }

StringSamples == {[i \in DOMAIN q |-> O1("a", Str(q[i]))] : q \in StrSeqs}

\* samples whose only key holds objects, arrays of objects, empty arrays
\* and nulls
NestVals ==
    {Absent, Null, List(<<>>),
     O1("x", Str("u")), O1("y", Num(1)),
     List(<<O1("x", Str("u")), O1("y", Null)>>),
     List(<<O1("y", Num(1))>>)}

\* samples whose only key holds values of different kinds
KindVals ==
    {Null, List(<<>>), Str("u"), Num(1),
     O1("x", Str("u")),
     List(<<O1("y", Num(1))>>),
     List(<<O1("x", Null), Num(1)>>)}

NestObjects == {Make({"a"}, [k \in {"a"} |-> v]) : v \in NestVals}
KindObjects == {Make({"a"}, [k \in {"a"} |-> v]) : v \in KindVals}

\* samples in which each of three keys is present or not; a is null when
\* it is present
PresenceObjects ==
    {Make({"a", "b", "c"}, [k \in {"a", "b", "c"} |->
         IF k \notin S THEN Absent
         ELSE IF k = "a" THEN Null ELSE IF k = "b" THEN Num(1) ELSE Str("w")]) :
       S \in (SUBSET {"a", "b", "c"}) \ {{}}}

\* two levels of nesting with a repeated string at the bottom
SampleDeep ==
    << O2("a", O1("b", O1("c", Str("u"))), "x", Str("w")),
       O1("a", O1("b", O2("c", Str("u"), "z", Num(1)))) >>

TrainSamples ==
    SeqsUpTo(NestObjects, MaxSamples) \cup SeqsUpTo(KindObjects, MaxSamples)
        \cup SeqsUpTo(PresenceObjects, MaxSamples) \cup SamplePool \cup {SampleDeep}

\* (samples, parameters) of a train call
TrainCases ==
    {<<smp, DefaultCfg>> : smp \in TrainSamples}
        \cup {<<smp, cfg>> : smp \in StringSamples, cfg \in CfgPool}

\* endpoints of a client and what it is asked to encode and to decode
Endpoints == {"A", "B"}

ClientData == {v \in DataPool : Len(v) = 1 => "c" \notin KeysOf(v[1])}

\* what a client is asked to encode when its packets are decoded at another
\* endpoint or after a registration
BindData == SeqsUpTo(FewObjects, 2)

ClientPayloads ==
    {NotJson, Dumps(Num(1)), Dumps(Str("w")), Dumps(Null), Dumps(EmptyObj),
     Dumps(List(<<>>)), Dumps(List(<<O1("z", Num(1)), Num(1)>>)),
     Dumps(O2("_f", Str("j"), "d", List(<<O1("z", Num(1))>>))),
     Dumps(O2("_f", Str("j"), "d", Num(1))),
     Dumps(O1("_f", Str("j"))),
     Dumps(O1("d", List(<<O1("z", Num(1))>>))),
     Dumps(O2("_f", Str("a"), "d", List(<<List(<<Str("w")>>)>>))),
     Dumps(Packet(Str("A"), Sha(EmptyNode), List(<<>>)))}

(***************************************************************************)
(* AgonClient: a registry of trained configs by endpoint                   *)
(***************************************************************************)
\* faulty variant: registering an endpoint forgets the other endpoints
ClientRegister_Fresh(cfgs, e, sample, tk) == (e :> Train(sample, e, DefaultCfg, tk))

\* AgonClient.register: self.configs[endpoint] = AGON.train(sample, endpoint)
ClientRegister(cfgs, e, sample, tk) == (e :> Train(sample, e, DefaultCfg, tk)) @@ cfgs

\* AgonClient.encode
ClientEncode(cfgs, e, v, tk) ==
    IF e \notin DOMAIN cfgs THEN Dumps(List(v))
    ELSE Encode(v, cfgs[e], FALSE, tk)

\* AgonClient.decode: only orjson.JSONDecodeError is caught on the
\* unregistered path, p["d"] raises KeyError when the key is absent
ClientDecode(cfgs, e, p, s) ==
    IF e \notin DOMAIN cfgs
    THEN IF ~IsJsonText(p) THEN List(<<>>)
         ELSE IF IsList(Loads(p)) THEN Loads(p)
         ELSE IF IsDict(Loads(p)) /\ Get(Loads(p), "_f") = Str("j")
              THEN IF "d" \in KeysOf(Loads(p)) THEN Fields(Loads(p))["d"]
                   ELSE Raise("KeyError", "d")
         ELSE List(<<>>)
    ELSE Decode(p, cfgs[e], s)

(***************************************************************************)
(* The text codecs AGONRows, AGONColumns and AGONStruct (agon.agon_core).   *)
(* A text is its sequence of lines, a line is its indentation, its leading *)
(* "- ", its key, its [N] and its delimited tokens; a token is the         *)
(* characters written, with or without the double quotes around them.      *)
(* Numbers are integers; objects are emitted in sorted key order.          *)
(***************************************************************************)
Formats == {"json", "rows", "columns", "struct"}
TextFormats == Formats \ {"json"}

\* the active delimiter: TAB in rows, ", " in a column and in a template
\* reference
Delim(F) == IF F = "rows" THEN "\t" ELSE ", "

\* the strings of the model, with the pieces an unquoted spelling falls
\* into when it is cut at a delimiter
Strings == {"", "w", "v", "7", "null", "true", " w", "a\tb", "a, b", "@w", "q\"q"}
Whitespaced == {" w"}
Reserved == {"@w"}
Quoted == {"q\"q"}
Pieces(s, D) ==
    IF s = "a\tb" /\ D = "\t" THEN <<"a", "b">>
    ELSE IF s = "a, b" /\ D = ", " THEN <<"a", "b">>
    ELSE <<s>>
Contains(s, D) == Len(Pieces(s, D)) > 1

\* the integers of the model and their decimal spelling
Numbers == -1 .. 9
LexesAsNumber(s) == \E n \in Numbers : ToString(n) = s
ParseNumber(s) == CHOOSE n \in Numbers : ToString(n) = s
LexesAsScalar(s) == LexesAsNumber(s) \/ s \in {"true", "false", "null"}

\* the string quoting predicate
MustQuote(s, D) ==
    \/ s = ""
    \/ s \in Whitespaced
    \/ Contains(s, D)
    \/ s \in Quoted
    \/ s \in Reserved
    \/ LexesAsScalar(s)

\* backslash escapes of a quoted string, and their decoding
Escape(s) ==
    IF s = "q\"q" THEN "q\\\"q"
    ELSE IF s = "a\tb" THEN "a\\tb"
    ELSE s
Unescape(s) ==
    IF s = "q\\\"q" THEN "q\"q"
    ELSE IF s = "a\\tb" THEN "a\tb"
    ELSE s

IsScalar(v) == v[1] \in {"null", "bool", "int", "str"}

\* scalar emission
Tok(v, D) ==
    IF IsNone(v) THEN [q |-> FALSE, s |-> "null"]
    ELSE IF v[1] = "bool" THEN [q |-> FALSE, s |-> IF v[2] THEN "true" ELSE "false"]
    ELSE IF IsInt(v) THEN [q |-> FALSE, s |-> ToString(v[2])]
    ELSE IF MustQuote(v[2], D) THEN [q |-> TRUE, s |-> Escape(v[2])]
    ELSE [q |-> FALSE, s |-> v[2]]

\* string parsing: a quoted token is a string, an unquoted one is probed
\* against null, the booleans and the numbers first
ParseTok(t) ==
    IF t.q THEN Str(Unescape(t.s))
    ELSE IF t.s = "null" THEN Null
    ELSE IF t.s = "true" THEN Bool(TRUE)
    ELSE IF t.s = "false" THEN Bool(FALSE)
    ELSE IF LexesAsNumber(t.s) THEN Num(ParseNumber(t.s))
    ELSE Str(t.s)

\* an empty field position
EmptyTok == [q |-> FALSE, s |-> ""]

\* the fields of a line: unquoted tokens stop at the active delimiter
RECURSIVE FieldsOf(_, _)
FieldsOf(toks, D) ==
    IF Len(toks) = 0 THEN <<>>
    ELSE (IF Head(toks).q THEN <<Head(toks)>>
          ELSE [i \in DOMAIN Pieces(Head(toks).s, D) |->
                   [q |-> FALSE, s |-> Pieces(Head(toks).s, D)[i]]])
         \o FieldsOf(Tail(toks), D)

\* a line of a text
Line(kind, ind, dash, key, n, toks) ==
    [kind |-> kind, ind |-> ind, dash |-> dash, key |-> key, n |-> n,
     toks |-> toks, tag |-> <<>>]

\* key @F<tag>(v1, v2): a reference to the template of a key tuple
Ref(ind, dash, key, shape, toks) ==
    [Line("ref", ind, dash, key, 0, toks) EXCEPT !.tag = shape]

\* a sequence of scalars, an object of scalars, an array of uniform objects
AllScalars(items) == \A i \in DOMAIN items : IsScalar(items[i])
ScalarObj(v) ==
    /\ IsDict(v)
    /\ KeysOf(v) # {}
    /\ \A k \in KeysOf(v) : IsScalar(Fields(v)[k])
Uniform(items) ==
    /\ Len(items) > 0
    /\ \A i \in DOMAIN items : ScalarObj(items[i]) /\ KeysOf(items[i]) = KeysOf(items[1])

\* the shape of an object: its sorted key tuple
ShapeOf(v) == SortedKeys(KeysOf(v))

RECURSIVE SumOf(_)
SumOf(ns) == IF Len(ns) = 0 THEN 0 ELSE Head(ns) + SumOf(Tail(ns))

\* the number of objects of a shape in a payload
RECURSIVE ShapeCount(_, _)
ShapeCount(v, shape) ==
    IF IsDict(v)
    THEN LET ks == ShapeOf(v)
         IN (IF ScalarObj(v) /\ ks = shape THEN 1 ELSE 0)
            + SumOf([i \in DOMAIN ks |-> ShapeCount(Fields(v)[ks[i]], shape)])
    ELSE IF IsList(v)
    THEN SumOf([i \in DOMAIN Items(v) |-> ShapeCount(Items(v)[i], shape)])
    ELSE 0

\* the shapes of the objects of a payload
RECURSIVE ShapesIn(_)
ShapesIn(v) ==
    IF IsDict(v)
    THEN (IF ScalarObj(v) THEN {ShapeOf(v)} ELSE {})
         \cup UNION {ShapesIn(Fields(v)[k]) : k \in KeysOf(v)}
    ELSE IF IsList(v) THEN UNION {ShapesIn(Items(v)[i]) : i \in DOMAIN Items(v)}
    ELSE {}

\* the shapes that appear at least twice get a template
Templates(v) == {shape \in ShapesIn(v) : ShapeCount(v, shape) >= 2}

RECURSIVE SeqOfSet(_)
SeqOfSet(S) ==
    IF S = {} THEN <<>>
    ELSE LET x == CHOOSE x \in S : TRUE IN <<x>> \o SeqOfSet(S \ {x})

\* the lines of value v written under a key (no key: an array item or an
\* unnamed root) at an indentation, in format F with templates tm
RECURSIVE EncodeValue(_, _, _, _, _, _)
RECURSIVE EncodeFields(_, _, _, _, _, _)
RECURSIVE EncodeItems(_, _, _, _)
EncodeValue(key, v, ind, dash, F, tm) ==
    LET D == Delim(F) IN
    IF IsScalar(v)
    THEN <<Line(IF key = "" THEN "val" ELSE "kv", ind, dash, key, 0, <<Tok(v, D)>>)>>
    ELSE IF IsDict(v)
    THEN IF F = "struct" /\ ScalarObj(v) /\ ShapeOf(v) \in tm
         THEN <<Ref(ind, dash, key, ShapeOf(v),
                    [i \in DOMAIN ShapeOf(v) |-> Tok(Fields(v)[ShapeOf(v)[i]], D)])>>
         ELSE IF key = "" /\ KeysOf(v) # {}
         THEN EncodeFields(v, ShapeOf(v), ind, dash, F, tm)
         ELSE <<Line("open", ind, dash, key, 0, <<>>)>>
              \o EncodeFields(v, ShapeOf(v), ind + 1, FALSE, F, tm)
    ELSE LET items == Items(v)
             N == Len(items)
             cols == ShapeOf(items[1])
         IN IF AllScalars(items)
            THEN <<Line("arr", ind, dash, key, N, [i \in 1 .. N |-> Tok(items[i], D)])>>
            ELSE IF Uniform(items) /\ ~(F = "struct" /\ cols \in tm)
            THEN IF F = "columns"
                 THEN <<Line("cols", ind, dash, key, N, <<>>)>>
                      \o [j \in DOMAIN cols |->
                             Line("col", ind + 1, FALSE, cols[j], 0,
                                  [i \in 1 .. N |-> Tok(Fields(items[i])[cols[j]], D)])]
                 ELSE <<Line("tab", ind, dash, key, N,
                             [j \in DOMAIN cols |-> [q |-> FALSE, s |-> cols[j]]])>>
                      \o [i \in 1 .. N |->
                             Line("row", ind, FALSE, "", 0,
                                  [j \in DOMAIN cols |-> Tok(Fields(items[i])[cols[j]], D)])]
            ELSE <<Line("arr", ind, dash, key, N, <<>>)>> \o EncodeItems(items, ind + 2, F, tm)

\* key: value, one entry after the other
EncodeFields(o, keys, ind, dash, F, tm) ==
    IF Len(keys) = 0 THEN <<>>
    ELSE EncodeValue(Head(keys), Fields(o)[Head(keys)], ind, dash, F, tm)
         \o EncodeFields(o, Tail(keys), ind, FALSE, F, tm)

\* one "- " item after the other
EncodeItems(items, ind, F, tm) ==
    IF Len(items) = 0 THEN <<>>
    ELSE EncodeValue("", Head(items), ind, TRUE, F, tm)
         \o EncodeItems(Tail(items), ind, F, tm)

\* the body of a text: the entries of a root object, or an unnamed root
EncodeBody(v, F, tm) ==
    IF IsDict(v) THEN EncodeFields(v, ShapeOf(v), 0, FALSE, F, tm)
    ELSE EncodeValue("", v, 0, FALSE, F, tm)

\* @F<tag>: k1, k2: the declaration of a template
Preamble(tm) ==
    [i \in DOMAIN SeqOfSet(tm) |->
        [Line("tmpl", 0, FALSE, "", 0, <<>>) EXCEPT !.tag = SeqOfSet(tm)[i]]]

\* AGONRows.encode, AGONColumns.encode, AGONStruct.encode: the text
\* after the header line
RowsEncode(v) == EncodeBody(v, "rows", {})
ColumnsEncode(v) == EncodeBody(v, "columns", {})
StructEncode(v) == Preamble(Templates(v)) \o EncodeBody(v, "struct", Templates(v))

\* the error of a text that is not of the format
BadText == Raise("ValueError", "Invalid payload")

\* a sequence of decoded values is an array, unless one of them is an error
Lift(vals) ==
    IF \E i \in DOMAIN vals : IsRaise(vals[i])
    THEN vals[CHOOSE i \in DOMAIN vals : IsRaise(vals[i])]
    ELSE List(vals)

\* the number of leading lines indented deeper than ind
RECURSIVE Deeper(_, _)
Deeper(lines, ind) ==
    IF Len(lines) = 0 \/ Head(lines).ind <= ind THEN 0
    ELSE 1 + Deeper(Tail(lines), ind)

\* the number of lines after the first that belong to it: the N body lines
\* of a tabular header, the deeper indented lines of any other line
Extent(lines) ==
    IF Head(lines).kind = "tab"
    THEN IF Head(lines).n < Len(lines) THEN Head(lines).n ELSE Len(lines) - 1
    ELSE Deeper(Tail(lines), Head(lines).ind)

\* the number of leading lines before the next "- " at indentation ind
RECURSIVE ItemExtent(_, _)
ItemExtent(lines, ind) ==
    IF Len(lines) = 0 THEN 0
    ELSE IF Head(lines).ind < ind \/ (Head(lines).dash /\ Head(lines).ind = ind) THEN 0
    ELSE 1 + ItemExtent(Tail(lines), ind)

\* a body line of a table: an empty field position is a missing key
ParseRow(cols, fields) ==
    IF Len(fields) # Len(cols) THEN BadText
    ELSE Obj([k \in {cols[j].s : j \in {i \in DOMAIN cols : fields[i] # EmptyTok}} |->
                 ParseTok(fields[CHOOSE j \in DOMAIN cols : cols[j].s = k])])

\* element i of a block of columns
ParseColumn(kids, i, D) ==
    IF \E j \in DOMAIN kids : kids[j].kind # "col" \/ Len(FieldsOf(kids[j].toks, D)) < i
    THEN BadText
    ELSE Obj([k \in {kids[j].key : j \in {x \in DOMAIN kids : FieldsOf(kids[x].toks, D)[i] # EmptyTok}} |->
                 ParseTok(FieldsOf(kids[CHOOSE j \in DOMAIN kids : kids[j].key = k].toks, D)[i])])

\* the value of a line and of the lines that belong to it
RECURSIVE ParseEntry(_, _, _, _)
RECURSIVE ParseObj(_, _, _)
RECURSIVE ParseItems(_, _, _)
ParseEntry(h, kids, F, tm) ==
    LET D == Delim(F)
        fields == FieldsOf(h.toks, D)
    IN IF h.kind = "open" \/ (h.kind \in {"kv", "val"} /\ fields[1] = EmptyTok)
       THEN ParseObj(kids, F, tm)
       ELSE IF h.kind \in {"kv", "val"}
       THEN IF Len(kids) # 0 THEN BadText ELSE ParseTok(fields[1])
       ELSE IF h.kind = "arr" /\ fields \notin {<<>>, <<EmptyTok>>}
       THEN IF Len(fields) # h.n \/ Len(kids) # 0 THEN BadText
            ELSE List([i \in DOMAIN fields |-> ParseTok(fields[i])])
       ELSE IF h.kind = "arr"
       THEN LET items == ParseItems(kids, F, tm)
            IN IF Len(items) # h.n THEN BadText ELSE Lift(items)
       ELSE IF h.kind = "tab"
       THEN IF Len(kids) # h.n \/ \E i \in DOMAIN kids : kids[i].kind # "row" THEN BadText
            ELSE Lift([i \in DOMAIN kids |-> ParseRow(h.toks, FieldsOf(kids[i].toks, D))])
       ELSE IF h.kind = "cols"
       THEN Lift([i \in 1 .. h.n |-> ParseColumn(kids, i, D)])
       ELSE IF h.kind = "ref"
       THEN IF h.tag \notin tm \/ Len(fields) # Len(h.tag) \/ Len(kids) # 0 THEN BadText
            ELSE Obj([k \in Range(h.tag) |->
                         ParseTok(fields[CHOOSE j \in DOMAIN h.tag : h.tag[j] = k])])
       ELSE BadText

\* the object of a block of entries
ParseObj(lines, F, tm) ==
    IF Len(lines) = 0 THEN EmptyObj
    ELSE LET h == Head(lines)
             e == Extent(lines)
             val == ParseEntry(h, SubSeq(lines, 2, 1 + e), F, tm)
             rest == ParseObj(SubSeq(lines, 2 + e, Len(lines)), F, tm)
         IN IF h.key = "" THEN BadText
            ELSE IF IsRaise(val) THEN val
            ELSE IF IsRaise(rest) THEN rest
            ELSE Obj([k \in KeysOf(rest) \cup {h.key} |->
                         IF k = h.key THEN val ELSE Fields(rest)[k]])

\* the values of a block of "- " items
ParseItems(lines, F, tm) ==
    IF Len(lines) = 0 THEN <<>>
    ELSE IF ~Head(lines).dash THEN <<BadText>>
    ELSE LET e == ItemExtent(Tail(lines), Head(lines).ind)
             item == SubSeq(lines, 1, 1 + e)
         IN <<IF Head(item).key = "" THEN ParseEntry(Head(item), Tail(item), F, tm)
              ELSE ParseObj(item, F, tm)>>
            \o ParseItems(SubSeq(lines, 2 + e, Len(lines)), F, tm)

\* the line kinds of a format
Grammar(F) ==
    IF F = "rows" THEN {"kv", "val", "open", "arr", "tab", "row"}
    ELSE IF F = "columns" THEN {"kv", "val", "open", "arr", "cols", "col"}
    ELSE {"kv", "val", "open", "arr", "tab", "row", "tmpl", "ref"}

\* the value of a non-empty body: an unnamed root, or the entries of a root
\* object
DecodeBody(lines, F, tm) ==
    IF \E i \in DOMAIN lines : lines[i].kind \notin Grammar(F) THEN BadText
    ELSE IF Head(lines).key = "" /\ Head(lines).kind # "ref"
    THEN IF Extent(lines) # Len(lines) - 1 THEN BadText
         ELSE ParseEntry(Head(lines), Tail(lines), F, tm)
    ELSE ParseObj(lines, F, tm)

\* the template table of a struct text, and the lines after it
TemplateTable(lines) == {lines[i].tag : i \in {j \in DOMAIN lines : lines[j].kind = "tmpl"}}
AfterPreamble(lines) == SubSeq(lines, Cardinality(TemplateTable(lines)) + 1, Len(lines))

\* the values decode(encode({})) may return: test_empty_object_roundtrip
\* of AGONRows and of AGONColumns accepts {} and None
EmptyBody == {EmptyObj, Null}

\* AGONRows.decode, AGONColumns.decode, AGONStruct.decode of the text after
\* the header line: the values the call may return
RowsDecode(lines) ==
    IF Len(lines) = 0 THEN EmptyBody ELSE {DecodeBody(lines, "rows", {})}
ColumnsDecode(lines) ==
    IF Len(lines) = 0 THEN EmptyBody ELSE {DecodeBody(lines, "columns", {})}
StructDecode(lines) ==
    IF Len(AfterPreamble(lines)) = 0 THEN {EmptyObj}
    ELSE {DecodeBody(AfterPreamble(lines), "struct", TemplateTable(lines))}

\* AGON.encode(v, format=F): an EncodingResult
Header(F) ==
    IF F = "rows" THEN "@AGON rows"
    ELSE IF F = "columns" THEN "@AGON columns"
    ELSE IF F = "struct" THEN "@AGON struct"
    ELSE ""
EncodingResult(F, text) == [format |-> F, text |-> text, header |-> Header(F)]
EncodeAs(v, F) ==
    IF F = "rows" THEN EncodingResult(F, RowsEncode(v))
    ELSE IF F = "columns" THEN EncodingResult(F, ColumnsEncode(v))
    ELSE IF F = "struct" THEN EncodingResult(F, StructEncode(v))
    ELSE EncodingResult(F, Dumps(v))

\* AGON.decode(r) of an EncodingResult: the decoder of r.format
DecodeResult(r) ==
    IF r.format = "rows" THEN RowsDecode(r.text)
    ELSE IF r.format = "columns" THEN ColumnsDecode(r.text)
    ELSE IF r.format = "struct" THEN StructDecode(r.text)
    ELSE {Loads(r.text)}

\* the values given to the text codecs: scalars at the quoting boundary in
\* every position, the empty array, the empty object, single-element
\* arrays, uniform and non-uniform arrays of objects, nested values and
\* repeated object shapes
ScalarPool == {Null, Bool(TRUE), Bool(FALSE), Num(7), Num(-1)} \cup {Str(s) : s \in Strings}
CellPool == {Null, Num(7), Str(""), Str("7"), Str("a\tb"), Str("a, b")}
One(k, v) == Obj([x \in {k} |-> v])
Two(k, v, l, w) == Obj([x \in {k, l} |-> IF x = k THEN v ELSE w])
FormatValues ==
    {List(<<>>), EmptyObj}
    \cup {List(<<x>>) : x \in ScalarPool}
    \cup {List(<<x, Str("w")>>) : x \in ScalarPool}
    \cup {One("a", x) : x \in ScalarPool}
    \cup {List(<<Two("a", x, "b", Num(1)), Two("a", Str("w"), "b", y)>>) :
             x \in CellPool, y \in CellPool}
    \cup {Two("x", Two("a", x, "b", Num(1)), "y", Two("a", Str("w"), "b", y)) :
             x \in CellPool, y \in CellPool}
    \cup {List(<<One("a", Num(1))>>),
          List(<<One("a", Num(1)), One("b", Num(2))>>),
          List(<<Num(1), One("a", Num(1))>>),
          List(<<EmptyObj>>),
          List(<<List(<<>>)>>),
          List(<<List(<<Num(1)>>), List(<<Num(2)>>)>>),
          List(<<One("a", List(<<Num(1)>>))>>),
          List(<<Two("a", Num(1), "b", Str("w")), Two("a", Num(2), "b", Str("v")),
                 Two("a", Null, "b", Str("w"))>>),
          List(<<One("a", One("x", Num(1))), One("a", One("x", Num(2)))>>),
          One("a", EmptyObj),
          One("a", List(<<>>)),
          One("a", One("b", One("c", Num(1)))),
          Two("a", List(<<Two("x", Num(1), "y", Str("w")), Two("x", Num(2), "y", Str(""))>>),
              "b", Str("w")),
          One("a", List(<<One("x", Num(1)), One("y", List(<<Num(2), One("z", Num(3))>>))>>))}

(***************************************************************************)
(* The adaptive selector: AGON.encode(v, "auto", force, min_savings,       *)
(* encoding).  A tokenizer prices a JSON text by its nodes and a codec     *)
(* text by its lines and its tokens; min_savings is in percent.            *)
(***************************************************************************)
\* the number of values and keys a JSON text spells
RECURSIVE JsonSize(_)
JsonSize(v) ==
    IF IsDict(v)
    THEN 1 + SumOf([i \in DOMAIN ShapeOf(v) |-> 1 + JsonSize(Fields(v)[ShapeOf(v)[i]])])
    ELSE IF IsList(v)
    THEN 1 + SumOf([i \in DOMAIN Items(v) |-> JsonSize(Items(v)[i])])
    ELSE 1

\* the number of keys and tokens on the lines of a codec text
TokensOn(lines) ==
    SumOf([i \in DOMAIN lines |->
              Len(lines[i].toks) + Len(lines[i].tag) + (IF lines[i].key = "" THEN 0 ELSE 1)])

\* count_tokens(r.text, encoding)
CountTokens(r, tk) ==
    IF r.format = "json" THEN tk.json * JsonSize(Loads(r.text))
    ELSE tk.line * Len(r.text) + tk.tok * TokensOn(r.text)

\* the candidates in their order: json is removed if force
CandidateOrder == <<"json", "rows", "columns", "struct">>
Candidates(force) == IF force THEN Tail(CandidateOrder) ELSE CandidateOrder

\* the minimum-cost candidate, the earlier one on equal cost
RECURSIVE MinCost(_, _, _)
MinCost(cands, best, cost) ==
    IF Len(cands) = 0 THEN best
    ELSE MinCost(Tail(cands), IF cost[Head(cands)] < cost[best] THEN Head(cands) ELSE best, cost)

Max1(n) == IF n < 1 THEN 1 ELSE n

\* faulty variant: the threshold is never applied
SavingsBelow_Never(best_cost, json_cost, min_savings) == FALSE

\* savings = 1 - cost(best) / max(1, cost(json)); savings < min_savings
SavingsBelow(best_cost, json_cost, min_savings) ==
    100 * (Max1(json_cost) - best_cost) < min_savings * Max1(json_cost)

\* encode(v, "auto", force, min_savings, encoding)
EncodeAuto(v, kw, tk) ==
    LET cands == Candidates(kw.force)
        cost == [F \in Formats |-> CountTokens(EncodeAs(v, F), tk)]
        best == MinCost(Tail(cands), Head(cands), cost)
    IN IF best # "json" /\ ~kw.force /\ SavingsBelow(cost[best], cost["json"], kw.min_savings)
       THEN EncodeAs(v, "json")
       ELSE EncodeAs(v, best)

\* the tokenizers and the keyword arguments of the model
Tokenizers == [json : {1, 2}, line : {0, 1, 2}, tok : {1, 2}]
DefaultKwargs == [force |-> FALSE, min_savings |-> 10]
KwargsPool == [force : BOOLEAN, min_savings : {0, 10, 50}]

(***************************************************************************)
(* The decoder multiplexer: AGON.decode(text).  A text is its leading      *)
(* whitespace, its header line and what follows: the lines of a codec, a   *)
(* JSON text, nothing, or characters that are neither.                     *)
(***************************************************************************)
EmptyText == <<"empty">>
Headers == {Header(F) : F \in TextFormats}

\* EncodingResult.with_header(): the text prefixed by the header
WithHeader(r) ==
    [ws |-> FALSE,
     header |-> r.header,
     body |-> IF r.format = "json" THEN r.text ELSE <<"lines", r.text>>]

InvalidPayload == Raise("InvalidPayload", "Invalid payload")

\* the lines after a header; a JSON text after a header is no line of a codec
BodyLines(t) ==
    IF t.body[1] = "lines" THEN t.body[2]
    ELSE IF t.body[1] = "empty" THEN <<>>
    ELSE <<Line("text", 0, FALSE, "", 0, <<>>)>>

\* faulty variant: leading whitespace is not trimmed
DecodeText_NoTrim(t) ==
    IF ~t.ws /\ t.header = Header("rows") THEN RowsDecode(BodyLines(t))
    ELSE IF ~t.ws /\ t.header = Header("columns") THEN ColumnsDecode(BodyLines(t))
    ELSE IF ~t.ws /\ t.header = Header("struct") THEN StructDecode(BodyLines(t))
    ELSE IF t.header = "" /\ IsJsonText(t.body) THEN {Loads(t.body)}
    ELSE {InvalidPayload}

\* AGON.decode(text): trim leading whitespace, dispatch on the header, else
\* a strict JSON parse
DecodeText(t) ==
    IF t.header = Header("rows") THEN RowsDecode(BodyLines(t))
    ELSE IF t.header = Header("columns") THEN ColumnsDecode(BodyLines(t))
    ELSE IF t.header = Header("struct") THEN StructDecode(BodyLines(t))
    ELSE IF IsJsonText(t.body) THEN {Loads(t.body)}
    ELSE {InvalidPayload}

(***************************************************************************)
(* The state machine: a producer trains a config, encodes data with it and *)
(* a consumer decodes the payload.                                         *)
(***************************************************************************)
VARIABLES enc, config, data, force_agon, payload, strict, result, origin, pc

\* the samples and parameters of the last train call, the config of a second
\* train call and the prompt or JSON Schema generated from config
VARIABLES train_data, params, again, doc

\* AgonClient.configs and the endpoint of the last client call
VARIABLES configs, endpoint

\* the value and the format of the last call of a text codec
VARIABLES value, format

\* force and min_savings of the last AGON.encode(v, "auto") call
VARIABLES kwargs

aux == <<train_data, params, again, doc, configs, endpoint, value, format, kwargs>>

vars == <<enc, config, data, force_agon, payload, strict, result, origin, pc, aux>>

NoResult == <<"none">>

\* nothing was trained, encoded, decoded, registered or generated yet
Idle ==
    /\ config = Anchor("A", EmptyNode)
    /\ data = <<>>
    /\ force_agon = FALSE
    /\ payload = NotJson
    /\ strict = TRUE
    /\ result = NoResult
    /\ origin = "none"
    /\ pc = "init"
    /\ train_data = <<>>
    /\ params = DefaultCfg
    /\ again = Anchor("A", EmptyNode)
    /\ doc = NoResult
    /\ configs = <<>>
    /\ endpoint = "A"
    /\ value = Null
    /\ format = "json"
    /\ kwargs = DefaultKwargs

Init == enc \in Encodings /\ Idle

\* AGON.train(samples, cid)
DoTrain ==
    /\ pc = "init"
    /\ \E samples \in SamplePool, cid \in Cids :
          config' = Train(samples, cid, DefaultCfg, enc)
    /\ pc' = "trained"
    /\ UNCHANGED <<enc, data, force_agon, payload, strict, result, origin, aux>>

\* AGON.encode(v, config, force_agon=f); payload holds the returned text or
\* the exception that escaped
DoEncode ==
    /\ pc = "trained"
    /\ \E v \in DataPool, f \in BOOLEAN :
          /\ data' = v
          /\ force_agon' = f
          /\ payload' = Encode(v, config, f, enc)
    /\ origin' = "encode"
    /\ result' = NoResult
    /\ pc' = "encoded"
    /\ UNCHANGED <<enc, config, strict, aux>>

\* AGON.decode(payload, config, strict=s)
DoDecode ==
    /\ pc \in {"encoded", "received"}
    /\ ~IsRaise(payload)
    /\ \E s \in BOOLEAN :
          /\ strict' = s
          /\ result' = Decode(payload, config, s)
    /\ pc' = "decoded"
    /\ UNCHANGED <<enc, config, data, force_agon, payload, origin, aux>>

Next == DoTrain \/ DoEncode \/ DoDecode

Spec == Init /\ [][Next]_vars

\* a consumer receives a payload that some producer wrote
DoReceive ==
    /\ pc = "trained"
    /\ payload' \in WirePayloads(config)
    /\ origin' = "wire"
    /\ result' = NoResult
    /\ pc' = "received"
    /\ UNCHANGED <<enc, config, data, force_agon, strict, aux>>

InitWire == Init /\ enc.obj = 1 /\ enc.list = 1

NextWire == DoTrain \/ DoReceive \/ DoDecode

SpecWire == InitWire /\ [][NextWire]_vars

(***************************************************************************)
(* Training on its own: a config is trained from samples with keyword      *)
(* arguments, then trained again or used to generate a prompt or a schema. *)
(***************************************************************************)
\* AGON.train(samples, cid, **parameters)
DoTrainWith ==
    /\ pc = "init"
    /\ \E c \in TrainCases, cid \in Cids :
          /\ config' = Train(c[1], cid, c[2], enc)
          /\ train_data' = c[1]
          /\ params' = c[2]
    /\ origin' = "train"
    /\ pc' = "trained"
    /\ UNCHANGED <<enc, data, force_agon, payload, strict, result>>
    /\ UNCHANGED <<again, doc, configs, endpoint, value, format, kwargs>>

\* a second AGON.train call with the same samples and parameters, under any
\* context id
DoRetrain ==
    /\ pc = "trained"
    /\ \E cid \in Cids : again' = Train(train_data, cid, params, enc)
    /\ pc' = "retrained"
    /\ UNCHANGED <<enc, config, data, force_agon, payload, strict, result, origin>>
    /\ UNCHANGED <<train_data, params, doc, configs, endpoint, value, format, kwargs>>

\* a second AGON.train call with other samples
DoTrainOther ==
    /\ pc = "trained"
    /\ \E smp \in SamplePool : again' = Train(smp, "B", DefaultCfg, enc)
    /\ pc' = "other"
    /\ UNCHANGED <<enc, config, data, force_agon, payload, strict, result, origin>>
    /\ UNCHANGED <<train_data, params, doc, configs, endpoint, value, format, kwargs>>

\* AGON.system_prompt(config)
DoPrompt ==
    /\ pc = "trained"
    /\ doc' = SystemPrompt(config)
    /\ pc' = "prompted"
    /\ UNCHANGED <<enc, config, data, force_agon, payload, strict, result, origin>>
    /\ UNCHANGED <<train_data, params, again, configs, endpoint, value, format, kwargs>>

\* AGON.get_json_schema(config)
DoSchema ==
    /\ pc = "trained"
    /\ doc' = GetJsonSchema(config)
    /\ pc' = "schema"
    /\ UNCHANGED <<enc, config, data, force_agon, payload, strict, result, origin>>
    /\ UNCHANGED <<train_data, params, again, configs, endpoint, value, format, kwargs>>

\* AGON.encode(samples, config): the adaptive encoding of the samples the
\* config was trained on
DoEncodeSamples ==
    /\ pc = "trained"
    /\ data' = train_data
    /\ force_agon' = FALSE
    /\ payload' = Encode(train_data, config, FALSE, enc)
    /\ pc' = "sampled"
    /\ UNCHANGED <<enc, config, strict, result, origin>>
    /\ UNCHANGED <<train_data, params, again, doc, configs, endpoint, value, format, kwargs>>

InitTrain == enc \in TrainEncodings /\ Idle

NextTrain ==
    DoTrainWith \/ DoRetrain \/ DoTrainOther \/ DoPrompt \/ DoSchema \/ DoEncodeSamples

SpecTrain == InitTrain /\ [][NextTrain]_vars

(***************************************************************************)
(* An AgonClient: endpoints are registered, then data is encoded for an    *)
(* endpoint, or a payload arrives for it, and is decoded.                  *)
(***************************************************************************)
\* client.register(e, sample) for an endpoint not registered yet
DoRegister ==
    /\ pc \in {"init", "registered"}
    /\ \E e \in Endpoints \ DOMAIN configs, sample \in SamplePool :
          /\ configs' = ClientRegister(configs, e, sample, enc)
          /\ endpoint' = e
    /\ pc' = "registered"
    /\ UNCHANGED <<enc, config, data, force_agon, payload, strict, result, origin>>
    /\ UNCHANGED <<train_data, params, again, doc, value, format, kwargs>>

\* client.encode(e, v)
DoClientEncode ==
    /\ pc \in {"init", "registered"}
    /\ \E e \in Endpoints, v \in ClientData :
          /\ endpoint' = e
          /\ data' = v
          /\ payload' = ClientEncode(configs, e, v, enc)
    /\ origin' = "encode"
    /\ result' = NoResult
    /\ pc' = "cencoded"
    /\ UNCHANGED <<enc, config, force_agon, strict>>
    /\ UNCHANGED <<train_data, params, again, doc, configs, value, format, kwargs>>

\* a payload written by someone else arrives for endpoint e
DoClientReceive ==
    /\ pc \in {"init", "registered"}
    /\ endpoint' \in Endpoints
    /\ payload' \in ClientPayloads
    /\ origin' = "wire"
    /\ result' = NoResult
    /\ pc' = "creceived"
    /\ UNCHANGED <<enc, config, data, force_agon, strict>>
    /\ UNCHANGED <<train_data, params, again, doc, configs, value, format, kwargs>>

\* client.decode(e, payload, strict=s) for the endpoint of the payload
DoClientDecode ==
    /\ pc \in {"cencoded", "creceived"}
    /\ ~IsRaise(payload)
    /\ \E s \in BOOLEAN :
          /\ strict' = s
          /\ result' = ClientDecode(configs, endpoint, payload, s)
    /\ pc' = "cdecoded"
    /\ UNCHANGED <<enc, config, data, force_agon, payload, origin>>
    /\ UNCHANGED <<train_data, params, again, doc, configs, endpoint, value, format, kwargs>>

NextClient == DoRegister \/ DoClientEncode \/ DoClientReceive \/ DoClientDecode

SpecClient == Init /\ [][NextClient]_vars

(***************************************************************************)
(* The text codecs: a value is encoded in a format and the result is       *)
(* decoded.                                                                *)
(***************************************************************************)
\* r = AGON.encode(v, format=F)
DoFormatEncode ==
    /\ pc = "init"
    /\ \E v \in FormatValues, F \in Formats :
          /\ value' = v
          /\ format' = F
          /\ payload' = EncodeAs(v, F)
    /\ result' = NoResult
    /\ pc' = "fencoded"
    /\ UNCHANGED <<enc, config, data, force_agon, strict, origin>>
    /\ UNCHANGED <<train_data, params, again, doc, configs, endpoint, kwargs>>

\* AGON.decode(r)
DoFormatDecode ==
    /\ pc = "fencoded"
    /\ result' \in DecodeResult(payload)
    /\ pc' = "fdecoded"
    /\ UNCHANGED <<enc, config, data, force_agon, payload, strict, origin>>
    /\ UNCHANGED <<aux>>

NextFormats == DoFormatEncode \/ DoFormatDecode

SpecFormats == Init /\ [][NextFormats]_vars

(***************************************************************************)
(* The adaptive selector: a value is encoded in the cheapest format.       *)
(***************************************************************************)
\* r = AGON.encode(v, "auto", force=f, min_savings=m, encoding=enc)
DoAutoEncode ==
    /\ pc = "init"
    /\ \E v \in FormatValues, kw \in KwargsPool :
          /\ value' = v
          /\ kwargs' = kw
          /\ payload' = EncodeAuto(v, kw, enc)
          /\ format' = payload'.format
    /\ result' = NoResult
    /\ pc' = "auto"
    /\ UNCHANGED <<enc, config, data, force_agon, strict, origin>>
    /\ UNCHANGED <<train_data, params, again, doc, configs, endpoint>>

InitAuto == enc \in Tokenizers /\ Idle

NextAuto == DoAutoEncode

SpecAuto == InitAuto /\ [][NextAuto]_vars

(***************************************************************************)
(* The decoder multiplexer: a text arrives and is decoded.                 *)
(***************************************************************************)
\* a text written by an encoder, with its header, with the header of
\* another format or without one, after leading whitespace or not
DoSendText ==
    /\ pc = "init"
    /\ \E v \in FormatValues, F \in Formats, h \in Headers \cup {""}, w \in BOOLEAN :
          /\ value' = v
          /\ format' = F
          /\ payload' = [WithHeader(EncodeAs(v, F)) EXCEPT !.ws = w, !.header = h]
    /\ origin' = "encode"
    /\ result' = NoResult
    /\ pc' = "text"
    /\ UNCHANGED <<enc, config, data, force_agon, strict>>
    /\ UNCHANGED <<train_data, params, again, doc, configs, endpoint, kwargs>>

\* a text no encoder wrote: nothing, or characters that are not JSON
DoSendOther ==
    /\ pc = "init"
    /\ \E b \in {EmptyText, NotJson}, h \in Headers \cup {""}, w \in BOOLEAN :
          payload' = [ws |-> w, header |-> h, body |-> b]
    /\ origin' = "wire"
    /\ result' = NoResult
    /\ pc' = "text"
    /\ UNCHANGED <<enc, config, data, force_agon, strict>>
    /\ UNCHANGED <<aux>>

\* AGON.decode(text)
DoDecodeText ==
    /\ pc = "text"
    /\ result' \in DecodeText(payload)
    /\ pc' = "tdecoded"
    /\ UNCHANGED <<enc, config, data, force_agon, payload, strict, origin>>
    /\ UNCHANGED <<aux>>

NextMux == DoSendText \/ DoSendOther \/ DoDecodeText

SpecMux == Init /\ [][NextMux]_vars

(***************************************************************************)
(* A consumer with a config of its own decodes what a producer encoded.    *)
(***************************************************************************)
\* AGON.decode(payload, consumer, strict=s) with consumer = AGON.train(...)
DoDecodeWith ==
    /\ pc = "encoded"
    /\ ~IsRaise(payload)
    /\ \E smp \in SamplePool, cid \in Cids, s \in BOOLEAN :
          /\ again' = Train(smp, cid, DefaultCfg, enc)
          /\ strict' = s
          /\ result' = Decode(payload, again', s)
    /\ pc' = "xdecoded"
    /\ UNCHANGED <<enc, config, data, force_agon, payload, origin>>
    /\ UNCHANGED <<train_data, params, doc, configs, endpoint, value, format, kwargs>>

NextCross == DoTrain \/ DoEncode \/ DoDecodeWith

SpecCross == Init /\ [][NextCross]_vars

(***************************************************************************)
(* An AgonClient whose endpoints are registered and registered again, and  *)
(* whose payloads are decoded at any endpoint; config holds the config     *)
(* that encoded the payload.                                               *)
(***************************************************************************)
\* client.register(e, sample) for any endpoint, before or after an encode
DoRegisterAny ==
    /\ pc \in {"init", "registered", "cencoded"}
    /\ \E e \in Endpoints, sample \in SamplePool :
          configs' = ClientRegister(configs, e, sample, enc)
    /\ pc' = IF pc = "cencoded" THEN "cencoded" ELSE "registered"
    /\ UNCHANGED <<enc, config, data, force_agon, payload, strict, result, origin>>
    /\ UNCHANGED <<train_data, params, again, doc, endpoint, value, format, kwargs>>

\* client.encode(e, v) on a registered endpoint
DoClientEncodeAt ==
    /\ pc = "registered"
    /\ \E e \in DOMAIN configs, v \in BindData :
          /\ endpoint' = e
          /\ data' = v
          /\ config' = configs[e]
          /\ payload' = ClientEncode(configs, e, v, enc)
    /\ origin' = "encode"
    /\ result' = NoResult
    /\ pc' = "cencoded"
    /\ UNCHANGED <<enc, force_agon, strict>>
    /\ UNCHANGED <<train_data, params, again, doc, configs, value, format, kwargs>>

\* client.decode(b, payload, strict=s) at any endpoint b
DoClientDecodeAt ==
    /\ pc = "cencoded"
    /\ ~IsRaise(payload)
    /\ \E b \in Endpoints, s \in BOOLEAN :
          /\ endpoint' = b
          /\ strict' = s
          /\ result' = ClientDecode(configs, b, payload, s)
    /\ pc' = "bdecoded"
    /\ UNCHANGED <<enc, config, data, force_agon, payload, origin>>
    /\ UNCHANGED <<train_data, params, again, doc, configs, value, format, kwargs>>

NextBind == DoRegisterAny \/ DoClientEncodeAt \/ DoClientDecodeAt

SpecBind == Init /\ [][NextBind]_vars

(***************************************************************************)
(* Properties of the encoder, checked under Spec.                          *)
(***************************************************************************)
Encoded == pc = "encoded" /\ IsJsonText(payload)
IsPacket(p) == IsJsonText(p) /\ IsDict(Loads(p)) /\ Get(Loads(p), "_f") = Str("a")
JsonOf(v) == Dumps(List(v))
RoundTripped == pc = "decoded" /\ origin = "encode" /\ force_agon /\ IsList(result)

\* coverage as the glossary words it: every key of every object, at every
\* position that has a schema node, is in that node's key set
RECURSIVE ObjCovered(_, _)
ObjCovered(o, node) ==
    /\ KeysOf(o) \subseteq Range(node.k)
    /\ \A k \in KeysOf(o) :
          LET v == Fields(o)[k]
              t == TypeOf(node, k)
          IN /\ (t = "obj" /\ IsDict(v)) => ObjCovered(v, node.s[k])
             /\ (t = "list" /\ IsList(v)) =>
                   \A j \in DOMAIN Items(v) :
                       IsDict(Items(v)[j]) => ObjCovered(Items(v)[j], node.s[k])

SchemaCovers(v, node) == \A i \in DOMAIN v : ObjCovered(v[i], node)

\* the same, where an array that mixes objects with other values is an
\* opaque value and not a position of the schema
RECURSIVE ObjCoveredPacked(_, _)
ObjCoveredPacked(o, node) ==
    /\ KeysOf(o) \subseteq Range(node.k)
    /\ \A k \in KeysOf(o) :
          LET v == Fields(o)[k]
              t == TypeOf(node, k)
          IN /\ (t = "obj" /\ IsDict(v)) => ObjCoveredPacked(v, node.s[k])
             /\ (t = "list" /\ IsListOfDicts(v)) =>
                   \A j \in DOMAIN Items(v) : ObjCoveredPacked(Items(v)[j], node.s[k])

PackedCovers(v, node) == \A i \in DOMAIN v : ObjCoveredPacked(v[i], node)

\* C1: forced round-trip -- for every trained config and every input the
\* schema covers, strict decode of the forced encoding returns the input.
C1_ForcedRoundTrip ==
    (RoundTripped /\ strict /\ SchemaCovers(data, config.schema))
        => result = List(data)

RECURSIVE NoSentinel(_)
NoSentinel(v) ==
    /\ v # missing_sentinel
    /\ IsDict(v) => \A k \in KeysOf(v) : NoSentinel(Fields(v)[k])
    /\ IsList(v) => \A i \in DOMAIN Items(v) : NoSentinel(Items(v)[i])

\* every non-null field value of the object conforms to its tag: an object
\* at obj, an array of objects at list, a string at dict and str, anything
\* but an object at scalar
RECURSIVE Conforms(_, _)
Conforms(o, node) ==
    \A k \in KeysOf(o) \cap Range(node.k) :
        LET v == Fields(o)[k]
            t == TypeOf(node, k)
        IN IsNone(v)
           \/ (t = "obj" /\ IsDict(v) /\ Conforms(v, node.s[k]))
           \/ (t = "list" /\ IsListOfDicts(v)
                  /\ \A i \in DOMAIN Items(v) : Conforms(Items(v)[i], node.s[k]))
           \/ (t \in {"dict", "str"} /\ IsStr(v))
           \/ (t = "scalar" /\ ~IsDict(v))

TypeConforming(v, node) ==
    /\ SchemaCovers(v, node)
    /\ \A i \in DOMAIN v : NoSentinel(v[i]) /\ Conforms(v[i], node)

\* C25: type-conforming round-trip -- if the input is covered, holds no
\* value equal to the sentinel and every non-null field value conforms to
\* its tag, recursively, then the forced encoding is a packet and its strict
\* decode returns the input.
C25_ConformingRoundTrip ==
    /\ (pc = "encoded" /\ force_agon /\ TypeConforming(data, config.schema))
          => IsPacket(payload)
    /\ (pc = "decoded" /\ origin = "encode" /\ force_agon /\ strict
           /\ TypeConforming(data, config.schema))
          => result = List(data)

\* a conforming object holding a nested object and a non-empty nested
\* array of objects was packed by force and came back unchanged
C25_Witness ==
    /\ pc = "decoded" /\ origin = "encode" /\ force_agon /\ strict
    /\ Len(data) >= 1
    /\ TypeConforming(data, config.schema)
    /\ IsPacket(payload)
    /\ \E k \in KeysOf(data[1]) :
          TypeOf(config.schema, k) = "obj" /\ IsDict(Fields(data[1])[k])
    /\ \E k \in KeysOf(data[1]) :
          /\ TypeOf(config.schema, k) = "list"
          /\ IsList(Fields(data[1])[k])
          /\ Len(Items(Fields(data[1])[k])) >= 1
    /\ result = List(data)

\* no field value of the object equals the reserved sentinel
NoSentinelField(r) == \A k \in KeysOf(r) : Fields(r)[k] # missing_sentinel

\* C6: missing versus explicit null -- for every top-level object r of a
\* covered input with no sentinel-valued field and every schema key k, after
\* a forced encode and a decode k is absent from the decoded object iff it
\* was absent from r and is null iff r[k] was null, the last key included.
C6_MissingVsNull ==
    (RoundTripped /\ SchemaCovers(data, config.schema)) =>
        /\ Len(Items(result)) = Len(data)
        /\ \A i \in DOMAIN data :
              NoSentinelField(data[i]) =>
                  \A k \in Range(config.schema.k) :
                      /\ k \in KeysOf(Items(result)[i]) <=> k \in KeysOf(data[i])
                      /\ (k \in KeysOf(Items(result)[i])
                              /\ Fields(Items(result)[i])[k] = Null)
                         <=> (k \in KeysOf(data[i]) /\ Fields(data[i])[k] = Null)

\* an object with an explicit null under the last schema key and an earlier
\* key missing came back with the null kept and the key still missing
C6_Witness ==
    /\ RoundTripped /\ strict
    /\ Len(data) = 1 /\ Len(config.schema.k) = 3
    /\ config.schema.k[3] \in KeysOf(data[1])
    /\ Fields(data[1])[config.schema.k[3]] = Null
    /\ config.schema.k[1] \notin KeysOf(data[1])
    /\ result = List(data)

\* largest i with keys[i] present in r, 0 when none is
LastPresent(r, keys) ==
    IF \E i \in DOMAIN keys : keys[i] \in KeysOf(r)
    THEN CHOOSE i \in DOMAIN keys :
             /\ keys[i] \in KeysOf(r)
             /\ \A j \in DOMAIN keys : keys[j] \in KeysOf(r) => j <= i
    ELSE 0

\* the packed row of r is truncated after the last present key and holds
\* the sentinel exactly under the absent keys; so are its nested rows
RECURSIVE RowTruncated(_, _, _)
RowTruncated(row, r, node) ==
    /\ IsList(row)
    /\ Len(Items(row)) = LastPresent(r, node.k)
    /\ Len(Items(row)) <= Len(node.k)
    /\ Len(Items(row)) > 0 => Items(row)[Len(Items(row))] # missing_sentinel
    /\ \A j \in DOMAIN Items(row) :
          LET k == node.k[j]
              t == TypeOf(node, k)
          IN /\ Items(row)[j] = missing_sentinel <=> k \notin KeysOf(r)
             /\ (k \in KeysOf(r) /\ t = "obj" /\ IsDict(Fields(r)[k]))
                   => RowTruncated(Items(row)[j], Fields(r)[k], node.s[k])
             /\ (k \in KeysOf(r) /\ t = "list" /\ IsListOfDicts(Fields(r)[k]))
                   => /\ IsList(Items(row)[j])
                      /\ Len(Items(Items(row)[j])) = Len(Items(Fields(r)[k]))
                      /\ \A n \in DOMAIN Items(Fields(r)[k]) :
                            RowTruncated(Items(Items(row)[j])[n],
                                         Items(Fields(r)[k])[n], node.s[k])

\* C7: trailing-missing truncation -- for every input object with no value
\* equal to the sentinel, the packed row has as many elements as the
\* position of the last present schema key, carries the sentinel at exactly
\* the absent positions below it, never ends with the sentinel and is never
\* longer than the key list; nested packed rows likewise.
C7_TrailingTruncation ==
    (Encoded /\ IsPacket(payload)) =>
        /\ IsList(Get(Loads(payload), "d"))
        /\ Len(Items(Get(Loads(payload), "d"))) = Len(data)
        /\ \A i \in DOMAIN data :
              NoSentinel(data[i]) =>
                  RowTruncated(Items(Get(Loads(payload), "d"))[i], data[i],
                               config.schema)

\* a packed row with the sentinel in the middle, its tail truncated, and a
\* nested row that was itself truncated
C7_Witness ==
    /\ Encoded /\ IsPacket(payload) /\ Len(data) = 1 /\ NoSentinel(data[1])
    /\ Len(config.schema.k) = 3
    /\ TypeOf(config.schema, config.schema.k[2]) = "obj"
    /\ Len(config.schema.s[config.schema.k[2]].k) = 2
    /\ LET row == Items(Items(Get(Loads(payload), "d"))[1])
       IN /\ Len(row) = 2
          /\ row[1] = missing_sentinel
          /\ IsList(row[2]) /\ Len(Items(row[2])) = 1

\* C11: encoding is total -- for every trained config and every list of
\* objects, whatever the JSON type of each field's value, encode returns a
\* string and raises nothing, adaptive or forced.
C11_EncodeTotal == pc = "encoded" => IsJsonText(payload)

\* C12: adaptive round-trip -- for every config and every list of objects,
\* covered or not, strict decode of the adaptive (unforced) encoding returns
\* the list that was encoded.
C12_AdaptiveRoundTrip ==
    (pc = "decoded" /\ origin = "encode" /\ ~force_agon /\ strict)
        => result = List(data)

(***************************************************************************)
(* Properties of the decoder, checked under SpecWire.                      *)
(***************************************************************************)
Decoded == pc = "decoded" /\ origin = "wire"
DecodedPacket == Decoded /\ IsPacket(payload)
PacketC == Get(Loads(payload), "c")
PacketV == Get(Loads(payload), "v")
PacketD == Get(Loads(payload), "d")
AnchorMatches == PacketC = Str(config.cid) /\ PacketV = config.v
RowsAreLists == IsList(PacketD) /\ \A i \in DOMAIN Items(PacketD) : IsList(Items(PacketD)[i])

\* C4: anchor check -- strict decode of a packet raises "CID Mismatch" when
\* c differs from config.cid (also when v differs too) and "Version
\* Mismatch" when c matches and v differs, whatever the rows hold; a
\* non-strict decode makes neither check and unpacks the rows with the
\* consumer's schema.
C4_AnchorCheck ==
    DecodedPacket =>
        /\ (strict /\ PacketC # Str(config.cid)) => result = AGONError("CID Mismatch")
        /\ (strict /\ PacketC = Str(config.cid) /\ PacketV # config.v)
              => result = AGONError("Version Mismatch")
        /\ (~strict /\ IsList(PacketD))
              => result = Unpack(Items(PacketD), config.schema, FALSE)
        /\ (~strict /\ ~IsList(PacketD)) => result = List(<<>>)

\* both c and v differ and the rows alone would raise another error
C4_Witness ==
    /\ DecodedPacket /\ strict
    /\ PacketC # Str(config.cid) /\ PacketV # config.v
    /\ IsList(PacketD) /\ ~RowsAreLists
    /\ result = AGONError("CID Mismatch")

\* C5 as stated: strict decode of a packet returns without error exactly
\* when c and v match the consumer's config.
C5_Original ==
    (DecodedPacket /\ strict) => (~IsRaise(result) <=> AnchorMatches)

\* C5: strict decode of a packet returns without error only if c and v
\* match the consumer's config (a matching packet is still rejected when d
\* is not a list, a row is not a list or a dictionary pointer is invalid).
C5_ValidOnlyIfAnchored ==
    (DecodedPacket /\ strict /\ ~IsRaise(result)) => AnchorMatches

\* a matching packet with a row was decoded in strict mode
C5_Witness ==
    /\ DecodedPacket /\ strict /\ AnchorMatches
    /\ IsList(result) /\ Len(Items(result)) > 0
    /\ Len(config.schema.k) > 0

\* v is a negative integer that points outside the dictionary
IsPointer(v) == IsInt(v) /\ Items(v) < 0
BadPointer(v, entries) == IsPointer(v) /\ -Items(v) > Len(entries)

\* some dict position reached by the unpacking of the row holds a bad pointer
RECURSIVE HasBadRef(_, _)
HasBadRef(row, node) ==
    \E j \in 1..Limit(row, node.k) :
        LET k == node.k[j]
            t == TypeOf(node, k)
            v == Items(row)[j]
        IN \/ t = "dict" /\ BadPointer(v, node.d[k])
           \/ t = "obj" /\ ~IsSentinel(v) /\ ~IsNone(v)
                 /\ ValidatePackedRowStructure(v, node.s[k]) /\ HasBadRef(v, node.s[k])
           \/ t = "list" /\ ~IsNone(v) /\ IsListOfLists(v)
                 /\ \E n \in DOMAIN Items(v) : HasBadRef(Items(v)[n], node.s[k])

\* every pointer of the row was resolved in the decoded object o: a valid
\* one to its dictionary entry, a bad one to the integer itself
RECURSIVE PointersResolved(_, _, _)
PointersResolved(row, o, node) ==
    \A j \in 1..Limit(row, node.k) :
        LET k == node.k[j]
            t == TypeOf(node, k)
            v == Items(row)[j]
        IN /\ (t = "dict" /\ IsPointer(v)) =>
                 /\ k \in KeysOf(o)
                 /\ Fields(o)[k] = IF BadPointer(v, node.d[k]) THEN v
                                   ELSE Str(node.d[k][-Items(v)])
           /\ (t = "obj" /\ ~IsSentinel(v) /\ ~IsNone(v)
                  /\ ValidatePackedRowStructure(v, node.s[k])) =>
                 /\ k \in KeysOf(o)
                 /\ IsDict(Fields(o)[k])
                 /\ PointersResolved(v, Fields(o)[k], node.s[k])
           /\ (t = "list" /\ ~IsNone(v) /\ IsListOfLists(v)) =>
                 /\ k \in KeysOf(o)
                 /\ IsList(Fields(o)[k])
                 /\ Len(Items(Fields(o)[k])) = Len(Items(v))
                 /\ \A n \in DOMAIN Items(v) :
                       PointersResolved(Items(v)[n], Items(Fields(o)[k])[n], node.s[k])

\* the elements of d that are lists, in their original order
OnlyListRows(d) == Filter(d, {r \in Range(d) : IsList(r)})

\* C8: invalid dictionary pointer -- in a packet that passes the anchor
\* check, a negative integer at a dict position that is not -(i+1) for an
\* index i of the dictionary makes strict decode raise "Invalid dict ref"
\* (unless an earlier row is not a list), while non-strict decode stores the
\* integer itself under the key and continues; a valid pointer -(i+1)
\* always decodes to dictionary entry i.  Nested rows count when the drift
\* guard lets them be unpacked.
C8_DictPointer ==
    (DecodedPacket /\ IsList(PacketD) /\ (strict => AnchorMatches)) =>
        LET rows == Items(PacketD)
            kept == OnlyListRows(rows)
            bad == \E i \in DOMAIN rows :
                       /\ \A j \in 1..i : IsList(rows[j])
                       /\ HasBadRef(rows[i], config.schema)
        IN /\ (strict /\ bad) => result = AGONError("Invalid dict ref")
           /\ ~strict => IsList(result)
           /\ IsList(result) =>
                 /\ Len(Items(result)) = Len(kept)
                 /\ \A i \in DOMAIN kept :
                       PointersResolved(kept[i], Items(result)[i], config.schema)

\* non-strict decode kept a bad pointer as an integer next to a resolved one
C8_Witness ==
    /\ DecodedPacket /\ ~strict /\ RowsAreLists
    /\ Len(Items(PacketD)) = 2
    /\ Len(config.schema.k) > 0 /\ TypeOf(config.schema, config.schema.k[1]) = "dict"
    /\ Items(PacketD)[1] = List(<<Num(-1)>>)
    /\ Items(PacketD)[2] = List(<<Num(-9)>>)
    /\ result = List(<<O1(config.schema.k[1], Str(config.schema.d[config.schema.k[1]][1])),
                       O1(config.schema.k[1], Num(-9))>>)

\* the four malformed shapes of C9
MalformedA == ~IsJsonText(payload)
MalformedB == IsJsonText(payload) /\ ~IsList(Loads(payload)) /\ ~IsPacket(payload)
MalformedC == IsPacket(payload) /\ ~IsList(PacketD)
MalformedD == IsPacket(payload) /\ IsList(PacketD) /\ ~RowsAreLists

\* C9: malformed payloads -- text that is not JSON, JSON that is neither a
\* list nor a packet, a packet whose d is not a list and a packet with a
\* non-list row all make strict decode raise AGONError; non-strict decode
\* raises nothing, returns [] in the first three cases and in the last one
\* skips the non-list rows and returns the other rows decoded, in order.
C9_Malformed ==
    (Decoded /\ (MalformedA \/ MalformedB \/ MalformedC \/ MalformedD)) =>
        IF strict THEN IsRaise(result) /\ result[2] = "AGONError"
        ELSE /\ IsList(result)
             /\ (MalformedA \/ MalformedB \/ MalformedC) => result = List(<<>>)
             /\ MalformedD =>
                   /\ Len(Items(result)) = Len(OnlyListRows(Items(PacketD)))
                   /\ result = Unpack(OnlyListRows(Items(PacketD)), config.schema, FALSE)

\* a non-list element between two different rows was skipped
C9_Witness ==
    /\ Decoded /\ ~strict /\ MalformedD
    /\ Len(Items(PacketD)) = 3 /\ ~IsList(Items(PacketD)[2])
    /\ Len(Items(result)) = 2
    /\ Items(result)[1] # Items(result)[2]

\* the row has more elements than the node has keys, or holds a raw object
\* other than the sentinel
TooLong(row, node) == Len(Items(row)) > Len(node.k)
HasRawObject(row) ==
    \E j \in DOMAIN Items(row) : IsDict(Items(row)[j]) /\ ~IsSentinel(Items(row)[j])
Impossible(row, node) == IsList(row) /\ (TooLong(row, node) \/ HasRawObject(row))

\* some top-level row, or some nested row under an obj position, is impossible
ImpossibleRowIn(rows, node) ==
    \E i \in DOMAIN rows :
        \/ Impossible(rows[i], node)
        \/ \E j \in 1..Limit(rows[i], node.k) :
              /\ TypeOf(node, node.k[j]) = "obj"
              /\ Impossible(Items(rows[i])[j], node.s[node.k[j]])

Prefix(row, n) == List(SubSeq(Items(row), 1, IF Len(Items(row)) < n THEN Len(Items(row)) ELSE n))

NotPackedRow(v, sub) ==
    \/ ~IsList(v)
    \/ IsList(v)
          /\ \/ TooLong(v, sub)
             \/ HasRawObject(v)
             \/ \E j \in 1..Limit(v, sub.k) :
                   /\ TypeOf(sub, sub.k[j]) \in {"obj", "list"}
                   /\ ~IsNone(Items(v)[j]) /\ ~IsSentinel(Items(v)[j])
                   /\ ~IsList(Items(v)[j])
Drifted(v, k, node) ==
    /\ ~IsNone(v)
    /\ \/ TypeOf(node, k) = "obj" /\ NotPackedRow(v, node.s[k])
       \/ TypeOf(node, k) = "list" /\ ~IsListOfLists(v)

\* every position of every row for which keep holds is stored unchanged
\* under its key, and no error but that of a dictionary pointer is raised
StoredUnchanged(keep(_, _, _)) ==
    (DecodedPacket /\ RowsAreLists /\ (strict => AnchorMatches)) =>
        LET rows == Items(PacketD)
            node == config.schema
        IN /\ IsRaise(result) => result = AGONError("Invalid dict ref")
           /\ IsList(result) =>
                 /\ Len(Items(result)) = Len(rows)
                 /\ \A i \in DOMAIN rows : \A j \in 1..Limit(rows[i], node.k) :
                       keep(Items(rows[i])[j], node.k[j], node) =>
                          /\ node.k[j] \in KeysOf(Items(result)[i])
                          /\ Fields(Items(result)[i])[node.k[j]] = Items(rows[i])[j]

\* C23 as stated: every non-null value at an obj or list position that is
\* not a valid packed row, or not a list of lists, is stored unchanged under
\* its key (the sentinel is such a value: it is not a list).
C23_Original == StoredUnchanged(Drifted)

DriftedValue(v, k, node) == Drifted(v, k, node) /\ ~IsSentinel(v)

\* C23: drift guard pass-through -- a value at an obj position that is
\* neither null nor the sentinel and is not a valid packed row for its
\* sub-schema, or at a list position and not a list whose elements are all
\* lists, is stored unchanged under its key and raises no error, in strict
\* and in non-strict mode; the sentinel leaves the key absent.
C23_DriftGuard == StoredUnchanged(DriftedValue)

\* strict decode kept a string at an obj position and a list of numbers at
\* a list position
C23_Witness ==
    /\ DecodedPacket /\ strict /\ AnchorMatches /\ RowsAreLists
    /\ Len(Items(PacketD)) = 1
    /\ Len(config.schema.k) = 3
    /\ TypeOf(config.schema, config.schema.k[2]) = "obj"
    /\ TypeOf(config.schema, config.schema.k[3]) = "list"
    /\ Len(Items(Items(PacketD)[1])) = 3
    /\ Items(Items(PacketD)[1])[2] = Str("w")
    /\ Items(Items(PacketD)[1])[3] = List(<<Num(1)>>)
    /\ IsList(result)
    /\ Fields(Items(result)[1])[config.schema.k[2]] = Str("w")
    /\ Fields(Items(result)[1])[config.schema.k[3]] = List(<<Num(1)>>)

(***************************************************************************)
(* Properties of training, checked under SpecTrain.                        *)
(***************************************************************************)
\* config is the result of train(train_data, cid, **params)
Trained == origin = "train" /\ pc # "init"

\* C13: anchor determinism -- a second train call with the same samples and
\* parameters returns the same schema and the same v, under any context id;
\* v is a function of the schema alone: two configs with equal schemas have
\* equal v whatever their cid and their samples.
C13_AnchorDeterminism ==
    /\ pc = "retrained" => again.schema = config.schema
    /\ pc \in {"retrained", "other"} =>
          (again.schema = config.schema => again.v = config.v)

\* the same samples were trained under two context ids, with a dictionary in
\* the schema, and the anchors agree
C13_Witness ==
    /\ pc = "retrained" /\ again.cid # config.cid
    /\ Len(config.schema.k) > 0 /\ DOMAIN config.schema.d # {}
    /\ again.v = config.v

\* the objects found under key k of the rows, in order: the object values
\* and the elements of the array values
RECURSIVE ObjectsUnder(_, _)
ObjectsUnder(rows, k) ==
    IF Len(rows) = 0 THEN <<>>
    ELSE LET r == Head(rows)
             v == IF k \in KeysOf(r) THEN Fields(r)[k] ELSE Null
         IN (IF IsDict(v) THEN <<v>>
             ELSE IF IsList(v) THEN Filter(Items(v), {x \in Range(Items(v)) : IsDict(x)})
             ELSE <<>>) \o ObjectsUnder(Tail(rows), k)

\* number of objects that hold key k, null or not
PresenceOf(objs, k) == Cardinality({i \in DOMAIN objs : k \in KeysOf(objs[i])})

\* the key list of the node, and of every sub-schema, holds each key of its
\* sample objects once, by non-increasing presence and alphabetically on ties
RECURSIVE NodeDense(_, _)
NodeDense(node, objs) ==
    LET seen == UNION {KeysOf(objs[i]) : i \in DOMAIN objs}
    IN /\ Range(node.k) = seen
       /\ Len(node.k) = Cardinality(seen)
       /\ \A i, j \in DOMAIN node.k :
             i < j =>
                 \/ PresenceOf(objs, node.k[i]) > PresenceOf(objs, node.k[j])
                 \/ /\ PresenceOf(objs, node.k[i]) = PresenceOf(objs, node.k[j])
                    /\ KeyRank(node.k[i]) < KeyRank(node.k[j])
       /\ \A k \in DOMAIN node.s : NodeDense(node.s[k], ObjectsUnder(objs, k))

\* C14: dense-first ordering -- in every schema node produced by train, root
\* and sub-schemas, the key list holds each key seen in the node's sample
\* objects exactly once, ordered by non-increasing presence count (a null
\* value counts as present), keys of equal presence in ascending
\* alphabetical order.
C14_DenseFirst == Trained => NodeDense(config.schema, train_data)

\* the densest key is alphabetically last and null wherever it is present,
\* and a sub-schema is not in alphabetical order either
C14_Witness ==
    /\ Trained /\ Len(train_data) = 3
    /\ config.schema.k = <<"c", "a", "b">>
    /\ PresenceOf(train_data, "a") = PresenceOf(train_data, "b")
    /\ \A i \in DOMAIN train_data :
          "a" \in KeysOf(train_data[i]) => Fields(train_data[i])["a"] = Null

\* the rows whose value under k decides the tag: present, not null and not
\* an empty array
Deciding(objs, k) ==
    {i \in DOMAIN objs :
        /\ k \in KeysOf(objs[i])
        /\ ~IsNone(Fields(objs[i])[k])
        /\ ~(IsList(Fields(objs[i])[k]) /\ Len(Items(Fields(objs[i])[k])) = 0)}

AllObjects(objs, k) ==
    Deciding(objs, k) # {} /\ \A i \in Deciding(objs, k) : IsDict(Fields(objs[i])[k])
AllArraysOfObjects(objs, k) ==
    Deciding(objs, k) # {} /\ \A i \in Deciding(objs, k) : IsListOfDicts(Fields(objs[i])[k])
AllStrings(objs, k) ==
    Deciding(objs, k) # {} /\ \A i \in Deciding(objs, k) : IsStr(Fields(objs[i])[k])

\* every key of the node, and of every sub-schema, carries the tag its
\* sample values call for, and exactly the obj and list keys have a
\* sub-schema, built from all the objects under the key
RECURSIVE NodeTyped(_, _)
NodeTyped(node, objs) ==
    /\ DOMAIN node.t = Range(node.k)
    /\ \A k \in Range(node.k) :
          /\ node.t[k] = "obj" <=> AllObjects(objs, k)
          /\ node.t[k] = "list" <=> AllArraysOfObjects(objs, k)
          /\ node.t[k] \in {"str", "dict"} <=> AllStrings(objs, k)
          /\ node.t[k] = "scalar" <=>
                ~(AllObjects(objs, k) \/ AllArraysOfObjects(objs, k) \/ AllStrings(objs, k))
          /\ k \in DOMAIN node.s <=> node.t[k] \in {"obj", "list"}
          /\ k \in DOMAIN node.s =>
                /\ Range(node.s[k].k) =
                      UNION {KeysOf(ObjectsUnder(objs, k)[i]) :
                                i \in DOMAIN ObjectsUnder(objs, k)}
                /\ NodeTyped(node.s[k], ObjectsUnder(objs, k))

\* C15: type inference -- a key is tagged obj iff its sample values are all
\* objects, list iff they are all arrays of objects, str (or dict) iff they
\* are all strings and scalar otherwise, nulls and empty arrays being
\* ignored; a key with values of several kinds, with an array mixing objects
\* and other values, or with only nulls and empty arrays is scalar; the
\* sub-schema of an obj or list key is built from all its objects, resp. all
\* the elements of its arrays.
C15_TypeInference == Trained => NodeTyped(config.schema, train_data)

\* a key holding two objects with different keys and an empty array became
\* obj with the union of the keys in its sub-schema
C15_Witness ==
    /\ Trained /\ Len(train_data) = 3
    /\ \E i \in DOMAIN train_data : train_data[i] = O1("a", List(<<>>))
    /\ TypeOf(config.schema, "a") = "obj"
    /\ Len(config.schema.s["a"].k) = 2

\* the strings under key k of the rows, in order
RECURSIVE StringsUnder(_, _)
StringsUnder(objs, k) ==
    IF Len(objs) = 0 THEN <<>>
    ELSE (IF k \in KeysOf(Head(objs)) /\ IsStr(Fields(Head(objs))[k])
          THEN <<Items(Fields(Head(objs))[k])>> ELSE <<>>)
         \o StringsUnder(Tail(objs), k)

\* an entry may be admitted: it repeats, and is short and free of control
\* characters when enum_like_only
Admissible(s, values, cfg) ==
    /\ Count(values, s) >= 2
    /\ cfg.enum_only => (StrLen(s) <= cfg.max_len /\ ~HasCtl(s))

\* the admitted entries: the admissible values by descending frequency, at
\* most max_dict_per_field of them
Admitted(values, cfg) ==
    LET ranked == Filter(MostCommon(values),
                         {s \in Range(values) : Admissible(s, values, cfg)})
    IN SubSeq(ranked, 1, IF Len(ranked) < cfg.max_dict THEN Len(ranked) ELSE cfg.max_dict)

\* sum over the entries of (tokens(literal) - tokens(pointer)) * freq
RECURSIVE SavingsOf(_, _, _, _)
SavingsOf(entries, n, values, tk) ==
    IF n = 0 THEN 0
    ELSE SavingsOf(entries, n - 1, values, tk)
         + (TkVal(Str(entries[n]), tk) - TkVal(Num(-n), tk)) * Count(values, entries[n])

\* sum over the entries of tokens(entry)
RECURSIVE TokensOf(_, _, _)
TokensOf(entries, n, tk) ==
    IF n = 0 THEN 0 ELSE TokensOf(entries, n - 1, tk) + TkVal(Str(entries[n]), tk)

\* savings - cost / amortize >= min_gain, over the rationals
Beneficial(k, entries, values, cfg, tk) ==
    LET cost == TkVal(Str(k), tk) + TokensOf(entries, Len(entries), tk) + Len(entries) + 4
    IN SavingsOf(entries, Len(entries), values, tk) * cfg.amortize - cost
           >= cfg.min_gain * cfg.amortize

\* every string key of the node, and of every sub-schema, is dict with the
\* admitted entries when the upgrade pays, and str without a dictionary
\* otherwise
RECURSIVE NodeDictionaries(_, _, _, _)
NodeDictionaries(node, objs, cfg, tk) ==
    /\ DOMAIN node.d = {k \in Range(node.k) : node.t[k] = "dict"}
    /\ \A k \in Range(node.k) :
          node.t[k] \in {"str", "dict"} =>
              LET values == StringsUnder(objs, k)
                  entries == Admitted(values, cfg)
              IN /\ node.t[k] = "dict" <=>
                       (Len(entries) > 0 /\ Beneficial(k, entries, values, cfg, tk))
                 /\ node.t[k] = "dict" => node.d[k] = entries
    /\ \A k \in DOMAIN node.s :
          NodeDictionaries(node.s[k], ObjectsUnder(objs, k), cfg, tk)

\* C16: dictionary upgrade -- a str field becomes dict iff at least one
\* value is admitted (frequency >= 2, at most max_dict_per_field entries in
\* descending frequency, each of length <= max_enum_len without newline,
\* carriage return or tab when enum_like_only) and the sum over the admitted
\* entries of (tokens(literal) - tokens(pointer)) * freq, minus (tokens(key)
\* + sum of tokens(entry) + number of entries + 4) / max(1, amortize), is
\* >= min_gain; the dictionary is then the admitted entries, and otherwise
\* the field stays str with no dictionary.
C16_DictUpgrade == Trained => NodeDictionaries(config.schema, train_data, params, enc)

\* the most frequent value was too long to be admitted and the next one
\* became the only entry
C16_Witness ==
    /\ Trained /\ Len(train_data) = 5
    /\ params.enum_only /\ params.max_len = 2 /\ params.max_dict = 1
    /\ train_data[1] = O1("a", Str(LongStr))
    /\ TypeOf(config.schema, "a") = "dict"
    /\ config.schema.d["a"] = <<"u">>

(***************************************************************************)
(* Properties of the generated schema and prompt, checked under SpecTrain. *)
(***************************************************************************)
RECURSIVE RowSchema(_, _)

\* the schema of a d array for the node: an array of rows
Fragment(frag, node) ==
    /\ IsDict(frag) /\ KeysOf(frag) = {"type", "items"}
    /\ Get(frag, "type") = Str("array")
    /\ RowSchema(Get(frag, "items"), node)

\* one alternative list: sentinel, null, then the part for the key's tag
ItemSchema(item, node, k) ==
    /\ IsDict(item) /\ KeysOf(item) = {"anyOf"}
    /\ IsList(Get(item, "anyOf"))
    /\ LET alts == Items(Get(item, "anyOf"))
           t == TypeOf(node, k)
       IN /\ Len(alts) >= 3
          /\ alts[1] = missing_sentinel_schema
          /\ alts[2] = Obj("type" :> Str("null"))
          /\ t = "obj" => (Len(alts) = 3 /\ RowSchema(alts[3], node.s[k]))
          /\ t = "list" => (Len(alts) = 3 /\ Fragment(alts[3], node.s[k]))
          /\ t = "dict" =>
                /\ Len(alts) = 4
                /\ alts[3] = Obj(("type" :> Str("integer")) @@ ("maximum" :> Num(-1))
                                 @@ ("minimum" :> Num(-Len(node.d[k]))))
                /\ alts[4] = Obj("type" :> Str("string"))
          /\ t \in {"str", "scalar"} => Len(alts) = 3

\* the schema of one row of the node: n prefix items in key order, at most
\* n items
RowSchema(inner, node) ==
    /\ IsDict(inner) /\ KeysOf(inner) = {"type", "prefixItems", "maxItems"}
    /\ Get(inner, "type") = Str("array")
    /\ Get(inner, "maxItems") = Num(Len(node.k))
    /\ IsList(Get(inner, "prefixItems"))
    /\ Len(Items(Get(inner, "prefixItems"))) = Len(node.k)
    /\ \A i \in DOMAIN node.k :
          ItemSchema(Items(Get(inner, "prefixItems"))[i], node, node.k[i])

\* C17: JSON-schema emission -- get_json_schema(config) is an object schema
\* requiring exactly _f, c, v, d, with consts "a", config.cid, config.v and
\* no additional properties; d is an array of arrays whose inner array has
\* exactly n prefixItems in schema key order and maxItems n for the n keys
\* of the root, and so is the fragment of every sub-schema (a list key
\* carries the fragment, an obj key its inner array); every prefix item is
\* an anyOf of the sentinel schema, null and the type-specific part, which
\* for a dict field with m entries is an integer in [-m, -1] and a string.
C17_JsonSchema ==
    pc = "schema" =>
        /\ IsDict(doc)
        /\ KeysOf(doc) = {"type", "properties", "required", "additionalProperties"}
        /\ Get(doc, "type") = Str("object")
        /\ Get(doc, "additionalProperties") = Bool(FALSE)
        /\ Range(Items(Get(doc, "required"))) = {Str("_f"), Str("c"), Str("v"), Str("d")}
        /\ Len(Items(Get(doc, "required"))) = 4
        /\ KeysOf(Get(doc, "properties")) = {"_f", "c", "v", "d"}
        /\ Get(Get(doc, "properties"), "_f") = Obj("const" :> Str("a"))
        /\ Get(Get(doc, "properties"), "c") = Obj("const" :> Str(config.cid))
        /\ Get(Get(doc, "properties"), "v") = Obj("const" :> config.v)
        /\ Fragment(Get(Get(doc, "properties"), "d"), config.schema)

\* a schema with an obj key, a list key and a dictionary inside a sub-schema
\* was emitted
C17_Witness ==
    /\ pc = "schema" /\ Len(config.schema.k) = 3
    /\ TypeOf(config.schema, "b") = "obj"
    /\ TypeOf(config.schema, "c") = "list"
    /\ TypeOf(config.schema.s["b"], "x") = "dict"
    /\ IsDict(doc)

\* the nodes of a schema with the path of keys that leads to each
RECURSIVE NodesOf(_, _)
NodesOf(node, path) ==
    {<<path, node>>}
        \cup UNION {NodesOf(node.s[k], Append(path, k)) : k \in DOMAIN node.s}

\* the key lists and the dictionary tables the prompt spells, by path
PromptView == Loads(doc.schema_str)
KeyListsIn ==
    {<<<<>>, Get(PromptView, "keys")>>}
        \cup {<<<<k>>, Get(Get(PromptView, "subs"), k)>> :
                k \in KeysOf(Get(PromptView, "subs"))}
TablesIn ==
    {<<<<>>, k, Get(Get(PromptView, "dicts"), k)>> : k \in KeysOf(Get(PromptView, "dicts"))}

Unregistered == endpoint \notin DOMAIN configs

\* C19: AgonClient on an unregistered endpoint -- encode returns the compact
\* raw JSON of the data; decode never raises and returns the list when the
\* payload is a raw JSON list, the d field when the payload is an object
\* with _f == "j", and the empty list for every other payload (invalid JSON,
\* any other object, any scalar).
C19_Unregistered ==
    /\ (pc = "cencoded" /\ Unregistered) => payload = Dumps(List(data))
    /\ (pc = "cdecoded" /\ Unregistered) =>
          /\ ~IsRaise(result)
          /\ IF ~IsJsonText(payload) THEN result = List(<<>>)
             ELSE IF IsList(Loads(payload)) THEN result = Loads(payload)
             ELSE IF IsDict(Loads(payload)) /\ Get(Loads(payload), "_f") = Str("j")
                  THEN "d" \in KeysOf(Loads(payload))
                       /\ result = Fields(Loads(payload))["d"]
             ELSE result = List(<<>>)

(***************************************************************************)
(* Properties of the text codecs, checked under SpecFormats.               *)
(***************************************************************************)
\* C20: for every JSON value v and every format F of rows, columns, struct
\* and json, decode(encode(v, F)) == v, the empty array, the empty object
\* and single-element arrays included.
C20_FormatRoundTrip == pc = "fdecoded" => result = value

(***************************************************************************)
(* Properties of the adaptive selector, checked under SpecAuto.            *)
(***************************************************************************)
\* the cost of every candidate of the last call
Costs == [F \in Formats |-> CountTokens(EncodeAs(value, F), enc)]
Cheapest(F, cost) ==
    /\ F \in Range(Candidates(kwargs.force))
    /\ \A i \in DOMAIN CandidateOrder :
          CandidateOrder[i] \in Range(Candidates(kwargs.force)) =>
             /\ cost[F] <= cost[CandidateOrder[i]]
             /\ (cost[F] = cost[CandidateOrder[i]] =>
                    \A j \in DOMAIN CandidateOrder : CandidateOrder[j] = F => j <= i)
TooSmall(F, cost) ==
    /\ F # "json"
    /\ ~kwargs.force
    /\ 100 * (Max1(cost["json"]) - cost[F]) < kwargs.min_savings * Max1(cost["json"])

WrittenBy(F) ==
    /\ origin = "encode"
    /\ format = F
    /\ payload.header = Header(F)

\* C22: after trimming leading whitespace, decode gives a text that starts
\* with "@AGON rows" to the rows decoder, "@AGON columns" to the columns
\* decoder, "@AGON struct" to the struct decoder, and parses any other text
\* as strict JSON; a text with no header that is not valid JSON, the empty
\* text included, fails with InvalidPayload and returns no value.
C22_Multiplexer ==
    pc = "tdecoded" =>
        /\ payload.header = "@AGON rows" => result \in RowsDecode(BodyLines(payload))
        /\ payload.header = "@AGON columns" => result \in ColumnsDecode(BodyLines(payload))
        /\ payload.header = "@AGON struct" => result \in StructDecode(BodyLines(payload))
        /\ \A F \in Formats : WrittenBy(F) => result \in DecodeResult(EncodeAs(value, F))
        /\ (payload.header = "" /\ payload.body[1] # "text") => result = InvalidPayload

\* a rows text after leading whitespace was decoded by the rows decoder
C22_Witness ==
    /\ pc = "tdecoded"
    /\ payload.ws
    /\ WrittenBy("rows")
    /\ value = List(<<One("a", Num(1)), One("b", Num(2))>>)
    /\ result = value

(***************************************************************************)
(* Properties of decoding under another config, checked under SpecCross.   *)
(***************************************************************************)
CrossDecoded == pc = "xdecoded"
RawList == IsJsonText(payload) /\ IsList(Loads(payload))

\* C24 as stated: a payload that parses to a list is returned unchanged
\* under every config and both values of strict, hence the output of
\* adaptive encode is always accepted by strict decode under any config.
C24_Original ==
    /\ (CrossDecoded /\ RawList) => result = Loads(payload)
    /\ (CrossDecoded /\ ~force_agon /\ strict) => ~IsRaise(result)

\* C24: raw-JSON fallback on decode -- a payload that parses to a list is
\* returned unchanged under every config and both values of strict, with no
\* anchor check and no row validation; hence the output of adaptive encode
\* is accepted by strict decode under any config whenever it is the raw
\* JSON of the input (a packet is still bound to its anchor).
C24_RawFallback ==
    /\ (CrossDecoded /\ RawList) => result = Loads(payload)
    /\ (CrossDecoded /\ ~force_agon /\ payload = Dumps(List(data))) => result = List(data)
    /\ (CrossDecoded /\ strict /\ ~IsRaise(result) /\ ~RawList) =>
          (again.cid = config.cid /\ again.v = config.v)

\* strict decode under a config with another cid and another schema
\* returned the raw JSON list of an adaptive encode
C24_Witness ==
    /\ CrossDecoded /\ strict /\ ~force_agon
    /\ again.cid # config.cid /\ again.v # config.v
    /\ Len(again.schema.k) > 0
    /\ Len(data) > 0
    /\ payload = Dumps(List(data))
    /\ result = List(data)

(***************************************************************************)
(* Properties of a config against the samples it was trained on            *)
(***************************************************************************)
\* C26: training samples are always covered -- for every list of sample
\* objects and every context id, _check_coverage(samples, train(samples,
\* cid).schema) is true, so the adaptive encoding of the samples always
\* packs them and is the outcome of the token comparison between the packet
\* and the raw JSON, never the raw JSON returned by the coverage gate.
C26_SamplesCovered ==
    /\ (origin = "train" /\ pc # "init")
          => CheckCoverage(train_data, config.schema)
    /\ pc = "sampled"
          => LET agon_rows == Pack(train_data, config.schema)
             IN IF IsRaise(agon_rows) THEN payload = agon_rows
                ELSE payload = Smaller(Dumps(Packet(Str(config.cid), config.v, agon_rows)),
                                       Dumps(List(train_data)), enc)

\* samples with a nested array of objects whose keys differ were trained
\* on, found covered, packed and encoded adaptively
C26_Witness ==
    /\ pc = "sampled"
    /\ Len(train_data) >= 2
    /\ \E k \in Range(config.schema.k) :
          /\ TypeOf(config.schema, k) = "list"
          /\ Len(config.schema.s[k].k) >= 2
    /\ CheckCoverage(train_data, config.schema)
    /\ ~IsRaise(payload)

(***************************************************************************)
(* Properties of the forced encoding                                       *)
(***************************************************************************)
\* the object with the keys of the schema node only, at every depth the
\* packer descends to
RECURSIVE Restricted(_, _)
Restricted(o, node) ==
    Obj([k \in KeysOf(o) \cap Range(node.k) |->
        LET v == Fields(o)[k]
            t == TypeOf(node, k)
        IN IF t = "obj" /\ IsDict(v) THEN Restricted(v, node.s[k])
           ELSE IF t = "list" /\ IsListOfDicts(v)
                THEN List([j \in DOMAIN Items(v) |-> Restricted(Items(v)[j], node.s[k])])
           ELSE v])

\* C27: force_agon bypasses the coverage gate and drops unknown keys -- with
\* force_agon=True encode always returns a packet {"_f": "a", "c": cid,
\* "v": v, "d": rows} with exactly one row per input object, and the strict
\* decode of the packet yields each input object restricted to the keys of
\* the schema.
C27_ForcedPacket ==
    /\ (pc = "encoded" /\ force_agon)
          => /\ IsPacket(payload)
             /\ Get(Loads(payload), "c") = Str(config.cid)
             /\ Get(Loads(payload), "v") = config.v
             /\ IsList(Get(Loads(payload), "d"))
             /\ Len(Items(Get(Loads(payload), "d"))) = Len(data)
    /\ (pc = "decoded" /\ origin = "encode" /\ force_agon /\ strict)
          => result = List([i \in DOMAIN data |-> Restricted(data[i], config.schema)])

(***************************************************************************)
(* Properties of the packets of an AgonClient                              *)
(***************************************************************************)
\* a packet of client.encode was decoded strictly at some endpoint
PacketDecoded ==
    pc = "bdecoded" /\ origin = "encode" /\ strict /\ IsPacket(payload)

\* the anchor errors of a packet of endpoint config.cid decoded at endpoint
\* `endpoint`, for the endpoints b the predicate holds of
AnchorErrors(bound(_)) ==
    PacketDecoded /\ bound(endpoint)
        => /\ endpoint # config.cid => result = AGONError("CID Mismatch")
           /\ (endpoint = config.cid /\ configs[endpoint].v # config.v)
                 => result = AGONError("Version Mismatch")
           /\ ~IsRaise(result)
                 => endpoint = config.cid /\ configs[endpoint].v = config.v

\* a step that changes the registry changes the config of one endpoint only
RegisterReplacesOne ==
    configs' # configs
        => \E e \in Endpoints :
              /\ DOMAIN configs' = DOMAIN configs \cup {e}
              /\ \A o \in DOMAIN configs \ {e} : configs'[o] = configs[o]

AnyEndpoint(b) == TRUE
Registered(b) == b \in DOMAIN configs

\* C28 as stated: a packet of client.encode(A, ...) is decoded without error
\* by client.decode(B, packet, strict=True) only if B = A and the schema
\* registered for A has the anchor of the packet; otherwise the call raises
\* "CID Mismatch" (B # A) or "Version Mismatch"; register replaces only
\* configs[E].
C28_Original == [](AnchorErrors(AnyEndpoint)) /\ [][RegisterReplacesOne]_vars

\* C28: client packets are bound to the config that produced them -- the
\* statement above for every registered endpoint B; at an endpoint that is
\* not registered the strict decode of a packet returns the empty list and
\* raises nothing.
C28_PacketBinding ==
    /\ [](AnchorErrors(Registered))
    /\ []((PacketDecoded /\ endpoint \notin DOMAIN configs) => result = List(<<>>))
    /\ [][RegisterReplacesOne]_vars

\* a packet of an endpoint was decoded strictly at that endpoint after the
\* endpoint was registered again with samples giving another schema
C28_Witness ==
    /\ PacketDecoded
    /\ endpoint = config.cid
    /\ configs[endpoint].v # config.v
    /\ Cardinality(DOMAIN configs) = 2
    /\ result = AGONError("Version Mismatch")

(***************************************************************************)
(* Properties of the schema nodes of a trained config                      *)
(***************************************************************************)
Tags == {"scalar", "str", "dict", "obj", "list"}

\* the rows a sub-schema is built from: the object values of an obj key,
\* the items of the arrays of a list key
SubRows(rows, k, tag) ==
    IF tag = "obj"
    THEN Filter(ValuesOf(rows, k), {v \in Range(ValuesOf(rows, k)) : IsDict(v)})
    ELSE ConcatLists(ValuesOf(rows, k))

\* the node, built from the rows, is well formed at every depth
RECURSIVE WellFormed(_, _, _)
WellFormed(node, rows, cfg) ==
    /\ \A i, j \in DOMAIN node.k : node.k[i] = node.k[j] => i = j
    /\ DOMAIN node.t = Range(node.k)
    /\ \A k \in DOMAIN node.t : node.t[k] \in Tags
    /\ DOMAIN node.s = {k \in Range(node.k) : node.t[k] \in {"obj", "list"}}
    /\ DOMAIN node.d = {k \in Range(node.k) : node.t[k] = "dict"}
    /\ \A k \in DOMAIN node.d :
          LET entries == node.d[k]
          IN /\ Len(entries) >= 1
             /\ Len(entries) <= cfg.max_dict
             /\ \A i, j \in DOMAIN entries : entries[i] = entries[j] => i = j
             /\ \A i \in DOMAIN entries :
                   Count(StrItems(ValuesOf(rows, k)), entries[i]) >= 2
    /\ \A k \in DOMAIN node.s :
          WellFormed(node.s[k], SubRows(rows, k, node.t[k]), cfg)

\* C29: schema well-formedness -- every node of a trained schema has one tag
\* among scalar/str/dict/obj/list per key, a sub-schema exactly for its obj
\* and list keys, and a dictionary exactly for its dict keys; a dictionary
\* is a non-empty list of pairwise distinct strings, of at most
\* max_dict_per_field entries, each of which occurs at least twice in the
\* samples.
C29_WellFormedSchema ==
    (origin = "train" /\ pc # "init") => WellFormed(config.schema, train_data, params)

\* samples in which two strings repeat were trained on with
\* max_dict_per_field = 1 and the dictionary holds one of them
C29_Witness ==
    /\ origin = "train" /\ pc = "trained"
    /\ params.max_dict = 1
    /\ WellFormed(config.schema, train_data, params)
    /\ \E k \in DOMAIN config.schema.d :
          LET values == StrItems(ValuesOf(train_data, k))
          IN /\ Len(config.schema.d[k]) = 1
             /\ Cardinality({x \in Range(values) : Count(values, x) >= 2}) = 2

(***************************************************************************)
(* Properties of a packet against the JSON Schema of its config            *)
(***************************************************************************)
\* the JSON Schema type names a value answers to
JsonTypes(v) ==
    IF IsNone(v) THEN {"null"}
    ELSE IF IsInt(v) THEN {"integer", "number"}
    ELSE IF IsStr(v) THEN {"string"}
    ELSE IF IsList(v) THEN {"array"}
    ELSE IF IsDict(v) THEN {"object"}
    ELSE {"boolean"}

\* the names of a "type" keyword: one name or an array of names
TypeNames(t) ==
    IF IsStr(t) THEN {Items(t)} ELSE {Items(Items(t)[i]) : i \in DOMAIN Items(t)}

\* validity of a JSON value against a JSON Schema over the keywords that
\* get_json_schema emits
RECURSIVE Valid(_, _)
Valid(v, sch) ==
    LET kw == KeysOf(sch)
        at(k) == Fields(sch)[k]
    IN /\ "type" \in kw => JsonTypes(v) \cap TypeNames(at("type")) # {}
       /\ "const" \in kw => (v[1] = at("const")[1] /\ v = at("const"))
       /\ "anyOf" \in kw => \E i \in DOMAIN Items(at("anyOf")) : Valid(v, Items(at("anyOf"))[i])
       /\ ("maximum" \in kw /\ IsInt(v)) => Items(v) <= Items(at("maximum"))
       /\ ("minimum" \in kw /\ IsInt(v)) => Items(v) >= Items(at("minimum"))
       /\ IsList(v) =>
            LET npre == IF "prefixItems" \in kw THEN Len(Items(at("prefixItems"))) ELSE 0
            IN /\ "maxItems" \in kw => Len(Items(v)) <= Items(at("maxItems"))
               /\ \A i \in DOMAIN Items(v) :
                     IF i <= npre THEN Valid(Items(v)[i], Items(at("prefixItems"))[i])
                     ELSE "items" \in kw => Valid(Items(v)[i], at("items"))
       /\ IsDict(v) =>
            LET props == IF "properties" \in kw THEN at("properties") ELSE EmptyObj
            IN /\ "required" \in kw
                    => \A i \in DOMAIN Items(at("required")) :
                          Items(Items(at("required"))[i]) \in KeysOf(v)
               /\ \A k \in KeysOf(v) \cap KeysOf(props) : Valid(Fields(v)[k], Fields(props)[k])
               /\ ("additionalProperties" \in kw /\ at("additionalProperties") = Bool(FALSE))
                    => KeysOf(v) \subseteq KeysOf(props)

\* covered input whose non-null field values conform to their tags
CoveredConforming(v, node) ==
    SchemaCovers(v, node) /\ \A i \in DOMAIN v : Conforms(v[i], node)

\* C30: encoder output conforms to the emitted JSON Schema -- for every
\* trained config and every covered, type-conforming input, the packet of
\* encode(v, config, force_agon=True) is valid against
\* get_json_schema(config): no row is longer than maxItems and the value at
\* each position matches an alternative of the anyOf of that position.
C30_PacketValid ==
    (pc = "encoded" /\ force_agon /\ CoveredConforming(data, config.schema))
        => /\ IsPacket(payload)
           /\ Valid(Loads(payload), GetJsonSchema(config))

\* a covered, conforming object with a nested object and a non-empty
\* nested array of objects was packed by force and the packet is valid
C30_Witness ==
    /\ pc = "encoded" /\ force_agon
    /\ Len(data) >= 1
    /\ CoveredConforming(data, config.schema)
    /\ \E k \in KeysOf(data[1]) :
          TypeOf(config.schema, k) = "obj" /\ IsDict(Fields(data[1])[k])
    /\ \E k \in KeysOf(data[1]) :
          /\ TypeOf(config.schema, k) = "list"
          /\ IsList(Fields(data[1])[k])
          /\ Len(Items(Fields(data[1])[k])) >= 1
    /\ IsPacket(payload)
    /\ Valid(Loads(payload), GetJsonSchema(config))

====
